---------------------------- MODULE Spec2Model ----------------------------
(***************************************************************************)
(* CAO (chat-with-a-model plugin): the transcript parser / validator, the  *)
(* reference expansion, the unified provider stream and the incremental    *)
(* callout (quote) transducer.                                             *)
(*                                                                         *)
(* Text is a sequence of characters.  A character is a one-element string; *)
(* a few fixed multi-character words that the inputs never cut in the      *)
(* middle ("Me", "CAO", "[[", "]]", "User query: ", ...) are kept as one   *)
(* element, so that startsWith, split, trim and slice are computed on      *)
(* sequences exactly as the code computes them on strings.                 *)
(***************************************************************************)
EXTENDS Integers, Sequences, FiniteSets, TLC

VARIABLES
    tText,        \* transducer: the whole text fed to the session
    tInit,        \* transducer: the start-of-line state before the first chunk
    tPos,         \* transducer: number of characters fed so far
    tOut,         \* transducer: concatenation of the processed chunks
    tState,       \* transducer: the carried isStartOfLine
    tCuts,        \* transducer: positions of the chunk boundaries used so far
    sProvider,    \* stream: which provider's streamMessage is iterated
    sGen,         \* stream: where the generator (streamMessage / wrapStream) stands
    sSource,      \* stream: the provider's raw event source
    sRaw,         \* stream: the raw events the source has delivered so far
    sEnding,      \* stream: how the source ended ("none" while it has not)
    sEvents,      \* stream: the unified events handed to the consumer so far
    sConsumer,    \* stream: the consumer's for-await loop
    dDoc,         \* document: the text of the note
    dOp,          \* document: the utility applied to it ("none" before)
    dUseCallouts, \* document: the useCallouts setting passed to validation
    dDetected,    \* document: result of detectChatFormat
    dValidation,  \* document: result of validateChatFormat
    dParsed,      \* document: result of parseChat
    dSerialized,  \* document: the parsed turns written back as a document
    dReparsed,    \* document: result of parseChat on dSerialized
    rNote,        \* vault: the text of the note H (the note with headings)
    rLink,        \* resolver: the linkText passed to resolveWikilink
    rResolved,    \* resolver: result of resolveWikilink
    rText,        \* expansion: the userQuery passed to parseUserPrompt
    rProcessed,   \* expansion: processedWikilinks at the call
    rExpanded,    \* expansion: result of parseUserPrompt
    rOp,          \* resolver / expansion: the function applied ("none" before)
    cTemplate,    \* template: the text of the custom prompt template
    cLines0,      \* template: the editor's lines before the insertion
    cInsertPos,   \* template: editor.getCursor() before the insertion
    cLines,       \* template: the editor's lines
    cCursor,      \* template: the editor's cursor
    cOp,          \* template: "none" before insertTemplate, "insert" after
    hUseCallouts, \* handler: options.useCallouts
    hShowStats,   \* handler: options.showStats
    hTokenCount,  \* handler: the field tokenCount
    hIsStartOfLine, \* handler: the field isStartOfLine
    hPhase,       \* handler: "idle" | "streaming" | "completed" | "failed"
    hSession,     \* handler: number of process() calls so far
    hStart,       \* handler: the two fields as process() found them
    hRequests,    \* handler: streamMessage calls made by this process()
    hIterator,    \* handler: the event stream ("none" | "open" | "exhausted" | "closed")
    hConsumed,    \* handler: the events this process() took from the stream
    hAppended,    \* handler: the text this process() rendered into the document
    pText,        \* invocations: the text both parseChat invocations are given
    pInv,         \* invocations: each one's locals and where it is suspended
    fDefaults,    \* settings: the plugin settings (defaultSettings)
    fFrontmatter, \* settings: the front matter of the chat note
    fSettings,    \* settings: result of extractChatRequestSettings
    fOp,          \* settings: "none" | "extract" | "write" | "readback"
    eDoc0,        \* editor: the note's text before the first "Get response"
    eDoc,         \* editor: the note's text (editor.getValue())
    eOwner,       \* editor: for each character of eDoc, the session that rendered it (0: none)
    eUseCallouts, \* editor: settings.useCallouts
    eShowStats,   \* editor: settings.showStats
    eSession,     \* editor: each "Get response" run's handler
    kCustomPrompts,\* commands: settings.customPrompts
    kPromptCommands,\* commands: the set promptCommands
    kCommands,    \* commands: for each id, the template its editorCallback holds
    kInserted,    \* commands: the template the last invoked command inserted
    kOp,          \* commands: "none" | "save" | "delete" | "settings" | "invoke"
    nDoc0,        \* non-streaming: the note's text when process was called
    nDoc,         \* non-streaming: the note's text
    nUseCallouts, \* non-streaming: options.useCallouts
    nShowStats,   \* non-streaming: options.showStats
    nTokenCount,  \* non-streaming: the field tokenCount
    nResponse,    \* non-streaming: what sendMessage gave ("none" before)
    nPhase        \* non-streaming: "idle" | "awaiting" | "completed" | "failed"

tVars == <<tText, tInit, tPos, tOut, tState, tCuts>>
sVars == <<sProvider, sGen, sSource, sRaw, sEnding, sEvents, sConsumer>>
dVars == <<dDoc, dOp, dUseCallouts, dDetected, dValidation, dParsed,
           dSerialized, dReparsed>>
rVars == <<rNote, rLink, rResolved, rText, rProcessed, rExpanded, rOp>>
cVars == <<cTemplate, cLines0, cInsertPos, cLines, cCursor, cOp>>
hVars == <<hUseCallouts, hShowStats, hTokenCount, hIsStartOfLine, hPhase, hSession,
           hStart, hRequests, hIterator, hConsumed, hAppended>>
pVars == <<pText, pInv>>
fVars == <<fDefaults, fFrontmatter, fSettings, fOp>>
eVars == <<eDoc0, eDoc, eOwner, eUseCallouts, eShowStats, eSession>>
kVars == <<kCustomPrompts, kPromptCommands, kCommands, kInserted, kOp>>
nVars == <<nDoc0, nDoc, nUseCallouts, nShowStats, nTokenCount, nResponse, nPhase>>
vars == <<tVars, sVars, dVars, rVars, cVars, hVars, pVars, fVars, eVars, kVars, nVars>>

---------------------------------------------------------------------------
(* Bounds of the model. *)

MaxText == 4
MaxRaw == 4
MaxLines == 4
MaxRefLines == 7

---------------------------------------------------------------------------
(* Characters and strings. *)

NL == "\n"
SP == " "

\* all sequences over S of length 0..n
SeqsUpTo(S, n) == UNION { [1..k -> S] : k \in 0..n }

---------------------------------------------------------------------------
(* processStreamingCalloutContent: the incremental quote transducer. *)

QuotePrefix == <<">", SP>>

\* a plausible bug: the flag is set at a line terminator and never cleared
RECURSIVE StreamingLoop_sticky(_, _, _, _)
StreamingLoop_sticky(chunk, i, processedChunk, newIsStartOfLine) ==
    IF i > Len(chunk)
    THEN [processedChunk |-> processedChunk, newIsStartOfLine |-> newIsStartOfLine]
    ELSE StreamingLoop_sticky(chunk, i + 1,
             (IF newIsStartOfLine THEN processedChunk \o QuotePrefix ELSE processedChunk)
                 \o <<chunk[i]>>,
             newIsStartOfLine \/ chunk[i] = NL)

RECURSIVE StreamingLoop(_, _, _, _)
StreamingLoop(chunk, i, processedChunk, newIsStartOfLine) ==
    IF i > Len(chunk)
    THEN [processedChunk |-> processedChunk, newIsStartOfLine |-> newIsStartOfLine]
    ELSE StreamingLoop(chunk, i + 1,
             (IF newIsStartOfLine THEN processedChunk \o QuotePrefix ELSE processedChunk)
                 \o <<chunk[i]>>,
             chunk[i] = NL)

\* a plausible bug: an empty chunk resets the state to start-of-line
processStreamingCalloutContent_resets(chunk, isStartOfLine) ==
    IF chunk = <<>>
    THEN [processedChunk |-> chunk, newIsStartOfLine |-> TRUE]
    ELSE StreamingLoop(chunk, 1, <<>>, isStartOfLine)

\* a plausible bug: every chunk is treated as starting a line
processStreamingCalloutContent_fresh(chunk, isStartOfLine) ==
    IF chunk = <<>>
    THEN [processedChunk |-> chunk, newIsStartOfLine |-> isStartOfLine]
    ELSE StreamingLoop(chunk, 1, <<>>, TRUE)

processStreamingCalloutContent(chunk, isStartOfLine) ==
    IF chunk = <<>>
    THEN [processedChunk |-> chunk, newIsStartOfLine |-> isStartOfLine]
    ELSE StreamingLoop(chunk, 1, <<>>, isStartOfLine)

---------------------------------------------------------------------------
(* A streaming session feeding a text to the transducer chunk by chunk.    *)

TAlphabet == {"a", NL}

\* one chunk of k characters (k = 0: an empty chunk) arrives and is processed
FeedChunk ==
    \E k \in 0..(Len(tText) - tPos) :
        LET chunk == SubSeq(tText, tPos + 1, tPos + k)
            r == processStreamingCalloutContent(chunk, tState)
        IN  /\ tOut' = tOut \o r.processedChunk
            /\ tState' = r.newIsStartOfLine
            /\ tPos' = tPos + k
            /\ tCuts' = tCuts \cup {tPos}
            /\ UNCHANGED <<tText, tInit>>
            /\ UNCHANGED <<sVars, dVars, rVars, cVars, hVars, pVars, fVars, eVars, kVars, nVars>>

TNext == FeedChunk

\* C1: whatever the cuts, the chunks fed so far give the same concatenated
\* output and the same carried state as one call on the text they make up;
\* at the end of the text this is one call on the whole text.
C1_ChunkingInvariant ==
    LET whole == processStreamingCalloutContent(SubSeq(tText, 1, tPos), tInit)
    IN  /\ tOut = whole.processedChunk
        /\ tState = whole.newIsStartOfLine

\* the whole text was fed in several chunks, with one cut right after a line
\* terminator and one cut right before a line terminator
C1_Witness ==
    /\ tPos = Len(tText)
    /\ \E c \in tCuts : c >= 1 /\ c < Len(tText) /\ tText[c] = NL
    /\ \E c \in tCuts : c >= 1 /\ c < Len(tText) /\ tText[c + 1] = NL

\* the chunk with the quotation prefix put before its first character when
\* the state is true and before every character that follows a line
\* terminator of the chunk
RECURSIVE PrefixedFrom(_, _, _)
PrefixedFrom(chunk, state, i) ==
    IF i > Len(chunk) THEN <<>>
    ELSE (IF (i = 1 /\ state) \/ (i > 1 /\ chunk[i - 1] = NL)
          THEN QuotePrefix ELSE <<>>)
             \o <<chunk[i]>> \o PrefixedFrom(chunk, state, i + 1)

\* C12: one call on a non-empty chunk outputs the chunk with "> " inserted
\* before exactly the characters that are first in the chunk when the state
\* is true or that directly follow a line terminator of the chunk, and the
\* new state is true iff the chunk's last character is a line terminator.
C12_PrefixPositions ==
    [][ LET chunk == SubSeq(tText, tPos + 1, tPos')
            out == SubSeq(tOut', Len(tOut) + 1, Len(tOut'))
        IN  chunk # <<>> =>
                /\ out = PrefixedFrom(chunk, tState, 1)
                /\ tState' = (chunk[Len(chunk)] = NL) ]_vars

\* the example: state true and one chunk "aa\na" gave "> aa\n> a", state false
C12_Witness ==
    /\ tInit
    /\ tText = <<"a", "a", NL, "a">>
    /\ tCuts = {0}
    /\ tPos = 4
    /\ tOut = <<">", SP, "a", "a", NL, ">", SP, "a">>
    /\ ~tState

\* C26: a call on an empty chunk adds nothing to the output and leaves the
\* state as it was, whichever the state, so empty chunks put anywhere among
\* the chunks change neither the total output nor the final state.
C26_EmptyChunkNoOp ==
    [][ tPos' = tPos => (tOut' = tOut /\ tState' = tState) ]_vars

\* an empty chunk was fed in the middle of a line, with the state false
C26_Witness ==
    /\ tInit
    /\ tText = <<"a", "a">>
    /\ tPos = 1
    /\ tCuts = {0, 1}
    /\ tOut = <<">", SP, "a">>
    /\ ~tState

---------------------------------------------------------------------------
(* The unified provider stream: streamMessage and wrapStream.              *)
(*                                                                         *)
(* A raw event is [kind, shape, text, usage]: text is the content delta    *)
(* (<<>> when empty or absent), usage the output / completion token count  *)
(* of its usage object (NoUsage when it has none).                         *)
(*   anthropic  kind "content_block_delta", shape "text" | "other" |       *)
(*              "nodelta" (no delta object); "message_delta";              *)
(*              "message_stop"                                             *)
(*   openai     kind "chunk", shape "choice" (choices[0] present),         *)
(*              "nochoice" (choices = []), "nochoices" (choices undefined) *)
(* A unified event is [type, content, outputTokens, cause].                *)

NoUsage == -1
Hel == <<"H", "e", "l">>
Lo == <<"l", "o">>

RawEvent(kind, shape, text, usage) ==
    [kind |-> kind, shape |-> shape, text |-> text, usage |-> usage]

AnthropicRawEvents ==
    { RawEvent("content_block_delta", "text", t, NoUsage) : t \in {Hel, Lo, <<>>} }
    \cup { RawEvent("content_block_delta", "other", <<>>, NoUsage),
           RawEvent("content_block_delta", "nodelta", <<>>, NoUsage),
           RawEvent("message_delta", "none", <<>>, 12),
           RawEvent("message_stop", "none", <<>>, NoUsage) }

OpenAIRawEvents ==
    { RawEvent("chunk", "choice", t, u) : t \in {Hel, Lo, <<>>}, u \in {NoUsage, 12} }
    \cup { RawEvent("chunk", "nochoice", <<>>, 12),
           RawEvent("chunk", "nochoices", <<>>, NoUsage) }

RawEvents(provider) ==
    IF provider = "anthropic" THEN AnthropicRawEvents ELSE OpenAIRawEvents

Content(text) ==
    [type |-> "content", content |-> text, outputTokens |-> 0, cause |-> "none"]
Usage(n) ==
    [type |-> "usage", content |-> <<>>, outputTokens |-> n, cause |-> "none"]
Done ==
    [type |-> "done", content |-> <<>>, outputTokens |-> 0, cause |-> "none"]
Error(cause) ==
    [type |-> "error", content |-> <<>>, outputTokens |-> 0, cause |-> cause]
\* the mapper's null: no unified event for this raw event
Skip ==
    [type |-> "skip", content |-> <<>>, outputTokens |-> 0, cause |-> "none"]

\* the event mapper throws a TypeError on this raw event
AnthropicMapperThrows(event) ==
    event.kind = "content_block_delta" /\ event.shape = "nodelta"

AnthropicMapper(event) ==
    IF event.kind = "content_block_delta" /\ event.shape = "text"
    THEN Content(event.text)
    ELSE IF event.kind = "message_delta" /\ event.usage # NoUsage
    THEN Usage(event.usage)
    ELSE Skip

OpenAIMapperThrows(chunk) == chunk.shape = "nochoices"

OpenAIMapper(chunk) ==
    IF chunk.shape = "choice" /\ chunk.text # <<>>
    THEN Content(chunk.text)
    ELSE IF chunk.usage # NoUsage
    THEN Usage(chunk.usage)
    ELSE Skip

MapperThrows(provider, event) ==
    IF provider = "anthropic" THEN AnthropicMapperThrows(event)
    ELSE OpenAIMapperThrows(event)

EventMapper(provider, event) ==
    IF provider = "anthropic" THEN AnthropicMapper(event) ELSE OpenAIMapper(event)

---------------------------------------------------------------------------
(* wrapStream as a generator driven by the consumer's for-await loop.      *)
(*   sGen       "start"        not started (no next() yet)                 *)
(*              "opening"      streamMessage runs up to the stream request *)
(*              "running"      inside wrapStream's for-await, pulling      *)
(*              "yielded"      suspended at `yield mappedEvent`            *)
(*              "yieldedDone"  suspended at `yield {type: "done"}`         *)
(*              "yieldedError" suspended at a `yield {type: "error"}`      *)
(*              "completed"    returned                                    *)
(*   sSource    "unopened" | "open" | "exhausted" | "failed" | "closed"    *)
(*   sConsumer  "start" | "waiting" | "body" | "stopped" | "finished"      *)

\* a plausible bug: the newest event is put in front of the ones already out
YieldEvent_reordered(events, mapped) == <<mapped>> \o events

\* `yield mappedEvent`: the event goes to the consumer, after those before it
YieldEvent(events, mapped) == Append(events, mapped)

\* a plausible bug: "done" is yielded after the try/catch, so also after "error"
CatchYield_thenDone(events, cause) == Append(Append(events, Error(cause)), Done)

\* the catch clauses: one "error" event
CatchYield(events, cause) == Append(events, Error(cause))

\* a plausible bug: a hand-written next() loop that never calls return()
CloseOnExit_leaks(source) == source

\* for-await left by break, return or throw calls the source iterator's return()
CloseOnExit(source) == IF source = "open" THEN "closed" ELSE source

\* the consumer calls next(): at the top of its loop, or first of all
ConsumerNext ==
    /\ sConsumer \in {"start", "body"}
    /\ sGen \in {"start", "yielded", "yieldedDone", "yieldedError"}
    /\ sGen' = CASE sGen = "start" -> "opening"
                 [] sGen = "yielded" -> "running"
                 [] OTHER -> "completed"
    /\ sConsumer' = IF sGen \in {"yieldedDone", "yieldedError"}
                    THEN "finished" ELSE "waiting"
    /\ UNCHANGED <<sProvider, sSource, sRaw, sEnding, sEvents>>
    /\ UNCHANGED <<tVars, dVars, rVars, cVars, hVars, pVars, fVars, eVars, kVars, nVars>>

\* streamMessage converts the request and asks the client for the stream;
\* if that throws, streamMessage's own catch yields the error
OpenStream ==
    /\ sGen = "opening"
    /\ \E fails \in BOOLEAN :
        IF fails
        THEN /\ sEvents' = CatchYield(sEvents, "open")
             /\ sGen' = "yieldedError"
             /\ sConsumer' = "body"
             /\ UNCHANGED sSource
        ELSE /\ sSource' = "open"
             /\ sGen' = "running"
             /\ UNCHANGED <<sEvents, sConsumer>>
    /\ UNCHANGED <<sProvider, sRaw, sEnding>>
    /\ UNCHANGED <<tVars, dVars, rVars, cVars, hVars, pVars, fVars, eVars, kVars, nVars>>

\* the source delivers its next raw event and wrapStream maps it
RawEventArrives ==
    /\ sGen = "running"
    /\ Len(sRaw) < MaxRaw
    /\ \E event \in RawEvents(sProvider) :
        /\ sRaw' = Append(sRaw, event)
        /\ IF MapperThrows(sProvider, event)
           THEN /\ sSource' = CloseOnExit(sSource)
                /\ sEvents' = CatchYield(sEvents, "adapter")
                /\ sGen' = "yieldedError"
                /\ sConsumer' = "body"
           ELSE IF EventMapper(sProvider, event) = Skip
           THEN UNCHANGED <<sSource, sEvents, sGen, sConsumer>>
           ELSE /\ sEvents' = YieldEvent(sEvents, EventMapper(sProvider, event))
                /\ sGen' = "yielded"
                /\ sConsumer' = "body"
                /\ UNCHANGED sSource
    /\ UNCHANGED <<sProvider, sEnding>>
    /\ UNCHANGED <<tVars, dVars, rVars, cVars, hVars, pVars, fVars, eVars, kVars, nVars>>

\* the source is exhausted: the loop ends and "done" is yielded
SourceCompletes ==
    /\ sGen = "running"
    /\ sEnding' = "complete"
    /\ sSource' = "exhausted"
    /\ sEvents' = YieldEvent(sEvents, Done)
    /\ sGen' = "yieldedDone"
    /\ sConsumer' = "body"
    /\ UNCHANGED <<sProvider, sRaw>>
    /\ UNCHANGED <<tVars, dVars, rVars, cVars, hVars, pVars, fVars, eVars, kVars, nVars>>

\* the source throws while it is iterated
SourceFaults ==
    /\ sGen = "running"
    /\ sEnding' = "fault"
    /\ sSource' = "failed"
    /\ sEvents' = CatchYield(sEvents, "upstream")
    /\ sGen' = "yieldedError"
    /\ sConsumer' = "body"
    /\ UNCHANGED <<sProvider, sRaw>>
    /\ UNCHANGED <<tVars, dVars, rVars, cVars, hVars, pVars, fVars, eVars, kVars, nVars>>

\* the consumer leaves its loop body by break, return or throw: return() is
\* called on the generator, which is suspended at a yield
ConsumerStop ==
    /\ sConsumer = "body"
    /\ sConsumer' = "stopped"
    /\ sGen' = "completed"
    /\ sSource' = IF sGen = "yielded" THEN CloseOnExit(sSource) ELSE sSource
    /\ UNCHANGED <<sProvider, sRaw, sEnding, sEvents>>
    /\ UNCHANGED <<tVars, dVars, rVars, cVars, hVars, pVars, fVars, eVars, kVars, nVars>>

SNext ==
    \/ ConsumerNext
    \/ OpenStream
    \/ RawEventArrives
    \/ SourceCompletes
    \/ SourceFaults
    \/ ConsumerStop

IsTerminal(event) == event.type \in {"done", "error"}

TerminalSeen == \E i \in 1..Len(sEvents) : IsTerminal(sEvents[i])

\* the raw events, one after another, each replaced by what the adapter makes
\* of it, the skipped ones left out
RECURSIVE AdapterImage(_, _)
AdapterImage(provider, raw) ==
    IF raw = <<>> THEN <<>>
    ELSE LET mapped == EventMapper(provider, Head(raw))
         IN  (IF mapped = Skip THEN <<>> ELSE <<mapped>>)
                 \o AdapterImage(provider, Tail(raw))

AdapterThrew == \E i \in 1..Len(sRaw) : MapperThrows(sProvider, sRaw[i])

\* C2: a terminal event is the last event; a fully consumed stream ends with
\* exactly one terminal event, "done" exactly when the source completed
\* normally and "error" exactly when opening, iterating or the adapter threw.
C2_OneTerminalEvent ==
    /\ \A i \in 1..Len(sEvents) : IsTerminal(sEvents[i]) => i = Len(sEvents)
    /\ sConsumer = "finished" =>
        /\ sEvents # <<>>
        /\ IsTerminal(sEvents[Len(sEvents)])
        /\ sEvents[Len(sEvents)].type = "done" <=> sEnding = "complete"
        /\ sEvents[Len(sEvents)].type = "error" <=>
               (sSource = "unopened" \/ sEnding = "fault" \/ AdapterThrew)

\* a stream consumed to its end that gave content and ended with "error"
C2_Witness ==
    /\ sConsumer = "finished"
    /\ Len(sEvents) >= 2
    /\ sEvents[1].type = "content"
    /\ sEvents[Len(sEvents)].type = "error"

\* C3: while nothing has thrown, the events handed out are the adapter image
\* of the raw events pulled, in their order; after normal completion they are
\* that image followed by one "done".
C3_OrderedImage ==
    /\ (sEnding = "none" /\ ~TerminalSeen) =>
           sEvents = AdapterImage(sProvider, sRaw)
    /\ sEnding = "complete" =>
           sEvents = AdapterImage(sProvider, sRaw) \o <<Done>>

\* the example: [delta("Hel"), delta("lo"), usage(12), end]
C3_Witness ==
    /\ sProvider = "anthropic"
    /\ sEnding = "complete"
    /\ sRaw = << RawEvent("content_block_delta", "text", Hel, NoUsage),
                 RawEvent("content_block_delta", "text", Lo, NoUsage),
                 RawEvent("message_delta", "none", <<>>, 12),
                 RawEvent("message_stop", "none", <<>>, NoUsage) >>
    /\ sEvents = <<Content(Hel), Content(Lo), Usage(12), Done>>

\* the raw event is a content delta: a text delta (anthropic), a chunk whose
\* first choice has a non-empty delta.content (openai)
IsContentDelta(provider, event) ==
    IF provider = "anthropic"
    THEN event.kind = "content_block_delta" /\ event.shape = "text"
    ELSE event.shape = "choice" /\ event.text # <<>>

CarriesUsage(event) == event.usage # NoUsage

\* what the raw events become when every content delta gives a Content event
\* and every raw event with usage data a Usage event
RECURSIVE KindImage(_, _)
KindImage(provider, raw) ==
    IF raw = <<>> THEN <<>>
    ELSE (IF IsContentDelta(provider, Head(raw)) THEN <<Content(Head(raw).text)>>
          ELSE <<>>)
             \o (IF CarriesUsage(Head(raw)) THEN <<Usage(Head(raw).usage)>> ELSE <<>>)
             \o KindImage(provider, Tail(raw))

\* C19: each adapter maps every content-delta raw event to a Content event,
\* every raw event that carries usage data to a Usage event with its output
\* token count, and every other raw event to nothing, also for a chunk that
\* carries both a content delta and usage data.
C19_AdapterKinds ==
    (sEnding = "none" /\ ~TerminalSeen) => sEvents = KindImage(sProvider, sRaw)

\* C9: once the consumer has left its loop before "done" or "error", the
\* source is closed, and from then on no raw event is pulled from it.
C9_StopClosesSource ==
    /\ [](sConsumer = "stopped" /\ ~TerminalSeen => sSource = "closed")
    /\ [][sConsumer = "stopped" => (sRaw' = sRaw /\ sEnding' = sEnding)]_vars

\* the consumer broke out after two content events, the source still open
C9_Witness ==
    /\ sConsumer = "stopped"
    /\ ~TerminalSeen
    /\ Len(sEvents) = 2
    /\ Len(sRaw) >= 2

---------------------------------------------------------------------------
(* String operations of the chat utilities, on character sequences.        *)

StartsWith(s, prefix) ==
    Len(s) >= Len(prefix) /\ SubSeq(s, 1, Len(prefix)) = prefix

IsWhitespace(c) == c \in {SP, NL}

\* String.prototype.split("\n"): the lines of a text; "" has the one line ""
RECURSIVE SplitAt(_, _, _)
SplitAt(text, sep, line) ==
    IF text = <<>> THEN <<line>>
    ELSE IF Head(text) = sep
    THEN <<line>> \o SplitAt(Tail(text), sep, <<>>)
    ELSE SplitAt(Tail(text), sep, Append(line, Head(text)))

SplitLines(text) == SplitAt(text, NL, <<>>)

\* Array.prototype.join("\n")
RECURSIVE JoinLines(_)
JoinLines(lines) ==
    IF lines = <<>> THEN <<>>
    ELSE IF Len(lines) = 1 THEN lines[1]
    ELSE lines[1] \o <<NL>> \o JoinLines(Tail(lines))

RECURSIVE TrimStart(_)
TrimStart(s) ==
    IF s # <<>> /\ IsWhitespace(Head(s)) THEN TrimStart(Tail(s)) ELSE s

RECURSIVE TrimEnd(_)
TrimEnd(s) ==
    IF s # <<>> /\ IsWhitespace(s[Len(s)])
    THEN TrimEnd(SubSeq(s, 1, Len(s) - 1)) ELSE s

\* String.prototype.trim()
Trim(s) == TrimEnd(TrimStart(s))

---------------------------------------------------------------------------
(* constants.ts *)

HEADER_USER_PREFIX == <<"#", "#", "#", SP, "Me">>
HEADER_AI_PREFIX == <<"#", "#", "#", SP, "CAO">>
CALLOUT_USER_PREFIX == <<">", SP, "[!question]+", SP, "Me">>
CALLOUT_AI_PREFIX == <<">", SP, "[!success]+", SP, "CAO">>

---------------------------------------------------------------------------
(* content.ts: extractWikilinks and resolveWikilink.                       *)

\* index of the first "]]" at or after j on the same line, 0 if there is none
\* (the regex's `.` does not match a line terminator)
RECURSIVE ClosingAt(_, _)
ClosingAt(text, j) ==
    IF j > Len(text) \/ text[j] = NL THEN 0
    ELSE IF text[j] = "]]" THEN j
    ELSE ClosingAt(text, j + 1)

\* a plausible bug: the display name is kept in the link
Before_whole(s, sep) == s

\* linkContent.split("|")[0] and linkText.split("#")[0]
RECURSIVE Before(_, _)
Before(s, sep) ==
    IF s = <<>> \/ Head(s) = sep THEN <<>>
    ELSE <<Head(s)>> \o Before(Tail(s), sep)

\* text.match(/\[\[(.*?)\]\]/g), each match cut to the link before any "|"
RECURSIVE ExtractFrom(_, _)
ExtractFrom(text, i) ==
    IF i > Len(text) THEN <<>>
    ELSE IF text[i] = "[[" /\ ClosingAt(text, i + 1) # 0
    THEN <<Before(SubSeq(text, i + 1, ClosingAt(text, i + 1) - 1), "|")>>
             \o ExtractFrom(text, ClosingAt(text, i + 1) + 1)
    ELSE ExtractFrom(text, i + 1)

extractWikilinks(text) == ExtractFrom(text, 1)

\* The vault (app): the note N, whose text is NoteBody and which has neither
\* headings nor block anchors; the empty note E; and the note H.  No other
\* name resolves to a file.  An app is given by the text of its note H.
NoteName == <<"N">>
NoteBody == <<"b", "o", "d", "y">>
EmptyNoteName == <<"E">>
HeadingNoteName == <<"H">>

\* the text of H in the vault the chat utilities run against
DefaultNote == <<"#", SP, "A", NL, "x", SP, "^", "k">>

\* app.metadataCache.getFirstLinkpathDest(fileName, "") finds a file
FileExists(fileName) == fileName \in {NoteName, EmptyNoteName, HeadingNoteName}

\* app.vault.read(file)
FileContent(app, fileName) ==
    IF fileName = NoteName THEN NoteBody
    ELSE IF fileName = HeadingNoteName THEN app
    ELSE <<>>

RECURSIVE LeadingHashes(_)
LeadingHashes(line) ==
    IF line # <<>> /\ Head(line) = "#" THEN 1 + LeadingHashes(Tail(line)) ELSE 0

\* the line is a heading: one to six "#", a space, the heading's text
IsHeadingLine(line) ==
    /\ LeadingHashes(line) \in 1..6
    /\ Len(line) > LeadingHashes(line)
    /\ line[LeadingHashes(line) + 1] = SP

HeadingOf(line) ==
    [heading |-> Trim(SubSeq(line, LeadingHashes(line) + 2, Len(line))),
     level |-> LeadingHashes(line)]

RECURSIVE HeadingsOf(_)
HeadingsOf(lines) ==
    IF lines = <<>> THEN <<>>
    ELSE (IF IsHeadingLine(Head(lines)) THEN <<HeadingOf(Head(lines))>> ELSE <<>>)
             \o HeadingsOf(Tail(lines))

\* metadata.headings: the headings of the file, in document order
Headings(app, fileName) == HeadingsOf(SplitLines(FileContent(app, fileName)))

\* the line ends with the block anchor " ^blockId"
HasBlockAnchor(line, blockId) ==
    /\ blockId # <<>>
    /\ Len(line) >= Len(blockId) + 2
    /\ SubSeq(line, Len(line) - Len(blockId) - 1, Len(line)) = <<SP, "^">> \o blockId

\* metadata.blocks[blockId]: the (0-based) line of the block, -1 if there is
\* no such block; a block is one line
BlockLineIn(lines, blockId) ==
    LET at == { i \in 1..Len(lines) : HasBlockAnchor(lines[i], blockId) }
    IN  IF at = {} THEN -1
        ELSE (CHOOSE i \in at : \A j \in at : i <= j) - 1

BlockLine(app, fileName, blockId) ==
    BlockLineIn(SplitLines(FileContent(app, fileName)), blockId)

\* "#".repeat(heading.level) + " " + heading.heading
HeadingNeedle(h) == [i \in 1..h.level |-> "#"] \o <<SP>> \o h.heading

\* String.prototype.indexOf: the (0-based) index of the first occurrence,
\* -1 if there is none
IndexOf(text, pattern) ==
    LET at == { k \in 1..(Len(text) - Len(pattern) + 1) :
                  SubSeq(text, k, k + Len(pattern) - 1) = pattern }
    IN  IF at = {} THEN -1
        ELSE (CHOOSE k \in at : \A j \in at : k <= j) - 1

\* new RegExp(`\\n#{1,${level}}\\s`, "g") matches at the (0-based) index k
NextHeadingMatches(text, level, k) ==
    /\ k + 1 <= Len(text)
    /\ text[k + 1] = NL
    /\ \E n \in 1..level :
        /\ k + 1 + n + 1 <= Len(text)
        /\ \A j \in 1..n : text[k + 1 + j] = "#"
        /\ IsWhitespace(text[k + 1 + n + 1])

\* nextHeadingRegex.exec(remainingContent) with lastIndex = 1: match.index,
\* -1 for no match
NextHeadingIndex(text, level) ==
    LET at == { k \in 1..Len(text) : NextHeadingMatches(text, level, k) }
    IN  IF at = {} THEN -1
        ELSE CHOOSE k \in at : \A j \in at : k <= j

\* String.prototype.slice(from, to), 0-based
Slice(text, from, to) == SubSeq(text, from + 1, to)

NoResolution == [found |-> FALSE, content |-> <<>>]

\* the result of headings.find when no heading has the name
NoHeading == [heading |-> <<>>, level |-> 0]

\* metadata.headings.find((h) => h.heading === subPath)
RECURSIVE FindHeading(_, _)
FindHeading(headings, subPath) ==
    IF headings = <<>> THEN NoHeading
    ELSE IF Head(headings).heading = subPath THEN Head(headings)
    ELSE FindHeading(Tail(headings), subPath)

\* fileContent.slice(headingIndex, endIndex), endIndex from the regex match
SectionUpTo(fileContent, headingIndex, matchIndex) ==
    Slice(fileContent, headingIndex,
          IF matchIndex # -1 THEN headingIndex + matchIndex ELSE Len(fileContent))

\* the body of "if (headingIndex !== -1)"; found = FALSE when it is -1
SectionAt(fileContent, headingIndex, level) ==
    IF headingIndex = -1 THEN NoResolution
    ELSE [found |-> TRUE,
          content |-> SectionUpTo(fileContent, headingIndex,
                          NextHeadingIndex(
                              Slice(fileContent, headingIndex, Len(fileContent)),
                              level))]

\* "Extract the section": [found, content], found = FALSE when there is no
\* such heading or the heading's text is not in the file
HeadingSection(fileContent, heading) ==
    IF heading = NoHeading THEN NoResolution
    ELSE SectionAt(fileContent, IndexOf(fileContent, HeadingNeedle(heading)),
                   heading.level)

\* lines.slice(start, end + 1).join("\n") for the block's line
BlockText(fileContent, line) == SplitLines(fileContent)[line + 1]

\* the body of "if (blockPosition)"; found = FALSE when there is no block
BlockSection(fileContent, blockLine) ==
    IF blockLine = -1 THEN NoResolution
    ELSE [found |-> TRUE, content |-> BlockText(fileContent, blockLine)]

\* resolveWikilink once fileName and subPath are split off
ResolveTarget(app, fileName, subPath) ==
    IF ~FileExists(fileName) THEN NoResolution
    ELSE IF subPath = <<>>
    THEN [found |-> TRUE, content |-> FileContent(app, fileName)]
    ELSE IF ~StartsWith(subPath, <<"^">>)
    THEN HeadingSection(FileContent(app, fileName),
                        FindHeading(Headings(app, fileName), subPath))
    ELSE BlockSection(FileContent(app, fileName),
                      BlockLine(app, fileName, Tail(subPath)))

\* let [fileName, subPath] = linkText.split("#")
ResolveParts(app, parts) ==
    ResolveTarget(app, parts[1], IF Len(parts) >= 2 THEN parts[2] ELSE <<>>)

\* [found, content]: found = FALSE is the null result
resolveWikilink(app, linkText) ==
    ResolveParts(app, SplitAt(Before(linkText, "|"), "#", <<>>))

---------------------------------------------------------------------------
(* chat.ts: parseUserPrompt and parseChat.                                 *)

UserQueryPrefix == <<"User query:", SP>>

ContextSection(wikilink, resolvedContent) ==
    <<NL, NL, "Context", SP, "from", SP, "[[">> \o wikilink \o <<"]]", ":", NL>>
        \o resolvedContent

\* the for loop over the wikilinks: [prompt, processed]
RECURSIVE PromptLoop(_, _, _)
PromptLoop(wikilinks, userPrompt, processedWikilinks) ==
    IF wikilinks = <<>>
    THEN [prompt |-> userPrompt, processed |-> processedWikilinks]
    ELSE LET wikilink == Head(wikilinks)
             resolved == resolveWikilink(DefaultNote, wikilink)
         IN  IF wikilink \in processedWikilinks
             THEN PromptLoop(Tail(wikilinks), userPrompt, processedWikilinks)
             ELSE IF resolved.found /\ resolved.content # <<>>
             THEN PromptLoop(Tail(wikilinks),
                      userPrompt \o ContextSection(wikilink, resolved.content),
                      processedWikilinks \cup {wikilink})
             ELSE PromptLoop(Tail(wikilinks), userPrompt, processedWikilinks)

\* a plausible bug: the set is not passed on, each call starts a new Set()
parseUserPrompt_freshSet(userQuery, processedWikilinks) ==
    PromptLoop(extractWikilinks(userQuery), UserQueryPrefix \o userQuery, {})

parseUserPrompt(userQuery, processedWikilinks) ==
    PromptLoop(extractWikilinks(userQuery), UserQueryPrefix \o userQuery,
               processedWikilinks)

Message(role, content) == [role |-> role, content |-> content]

\* a plausible bug: every leading quote prefix of a line is removed
RECURSIVE StripQuote_all(_)
StripQuote_all(lines) ==
    IF \E i \in 1..Len(lines) : StartsWith(lines[i], QuotePrefix)
    THEN StripQuote_all([i \in 1..Len(lines) |->
             IF StartsWith(lines[i], QuotePrefix)
             THEN SubSeq(lines[i], 3, Len(lines[i])) ELSE lines[i]])
    ELSE lines

\* content.map((l) => (l.startsWith("> ") ? l.slice(2) : l))
StripQuote(lines) ==
    [i \in 1..Len(lines) |->
        IF StartsWith(lines[i], QuotePrefix)
        THEN SubSeq(lines[i], 3, Len(lines[i])) ELSE lines[i]]

\* a plausible bug: the quote prefixes are left in place
CalloutBuffer_noStrip(content, inCallout) == Trim(JoinLines(content))

\* the text of the buffered lines as the callout branches and the final
\* flush compute it
CalloutBuffer(content, inCallout) ==
    IF inCallout THEN Trim(JoinLines(StripQuote(content)))
    ELSE Trim(JoinLines(content))

\* The loop state: messages, the role of currentMessage ("none": null), the
\* buffered lines, inCallout and processedWikilinks.
ParseState(messages, current, content, inCallout, processed) ==
    [messages |-> messages, current |-> current, content |-> content,
     inCallout |-> inCallout, processed |-> processed]

ParseStart == ParseState(<<>>, "none", <<>>, FALSE, {})

\* a plausible bug: the user-marker branches expand the buffer like the others
FlushPlain_expanded(st, text) ==
    IF st.current = "none" THEN st.messages
    ELSE Append(st.messages,
                Message(st.current, parseUserPrompt(text, st.processed).prompt))

\* flush of the buffer as plain text (the user-marker branches)
FlushPlain(st, text) ==
    IF st.current = "none" THEN st.messages
    ELSE Append(st.messages, Message(st.current, text))

\* a plausible bug: the assistant-marker branches store the buffer as plain
\* text, like the user-marker branches
ParseLine_plainAtAssistant(st, line) ==
    IF StartsWith(line, HEADER_USER_PREFIX)
    THEN ParseState(FlushPlain(st, Trim(JoinLines(st.content))),
                    "user", <<>>, FALSE, st.processed)
    ELSE IF StartsWith(line, HEADER_AI_PREFIX)
    THEN ParseState(FlushPlain(st, Trim(JoinLines(st.content))),
                    "assistant", <<>>, FALSE, st.processed)
    ELSE IF StartsWith(line, CALLOUT_USER_PREFIX)
    THEN ParseState(FlushPlain(st, CalloutBuffer(st.content, st.inCallout)),
                    "user", <<>>, TRUE, st.processed)
    ELSE IF StartsWith(line, CALLOUT_AI_PREFIX)
    THEN ParseState(FlushPlain(st, CalloutBuffer(st.content, st.inCallout)),
                    "assistant", <<>>, TRUE, st.processed)
    ELSE ParseState(st.messages, st.current, Append(st.content, line),
                    st.inCallout, st.processed)

\* one iteration of `for (const line of lines)`
ParseLine(st, line) ==
    IF StartsWith(line, HEADER_USER_PREFIX)
    THEN ParseState(FlushPlain(st, Trim(JoinLines(st.content))),
                    "user", <<>>, FALSE, st.processed)
    ELSE IF StartsWith(line, HEADER_AI_PREFIX)
    THEN LET p == parseUserPrompt(Trim(JoinLines(st.content)), st.processed)
         IN  IF st.current = "none"
             THEN ParseState(st.messages, "assistant", <<>>, FALSE, st.processed)
             ELSE ParseState(Append(st.messages, Message(st.current, p.prompt)),
                             "assistant", <<>>, FALSE, p.processed)
    ELSE IF StartsWith(line, CALLOUT_USER_PREFIX)
    THEN ParseState(FlushPlain(st, CalloutBuffer(st.content, st.inCallout)),
                    "user", <<>>, TRUE, st.processed)
    ELSE IF StartsWith(line, CALLOUT_AI_PREFIX)
    THEN LET p == parseUserPrompt(CalloutBuffer(st.content, st.inCallout),
                                  st.processed)
         IN  IF st.current = "none"
             THEN ParseState(st.messages, "assistant", <<>>, TRUE, st.processed)
             ELSE ParseState(Append(st.messages, Message(st.current, p.prompt)),
                             "assistant", <<>>, TRUE, p.processed)
    ELSE ParseState(st.messages, st.current, Append(st.content, line),
                    st.inCallout, st.processed)

RECURSIVE ParseLines(_, _)
ParseLines(st, lines) ==
    IF lines = <<>> THEN st
    ELSE ParseLines(ParseLine(st, Head(lines)), Tail(lines))

\* a plausible bug: the last message is stored like the others before a
\* user marker, as plain text
FinalFlush_plain(st) ==
    IF st.current = "none" THEN st
    ELSE ParseState(Append(st.messages,
                        Message(st.current, CalloutBuffer(st.content, st.inCallout))),
                    st.current, st.content, st.inCallout, st.processed)

\* a plausible bug: the last message is expanded only when it is a user message
FinalFlush_userOnly(st) ==
    IF st.current = "none" THEN st
    ELSE IF st.current = "user"
    THEN LET p == parseUserPrompt(CalloutBuffer(st.content, st.inCallout),
                                  st.processed)
         IN  ParseState(Append(st.messages, Message(st.current, p.prompt)),
                        st.current, st.content, st.inCallout, p.processed)
    ELSE ParseState(Append(st.messages,
                        Message(st.current, CalloutBuffer(st.content, st.inCallout))),
                    st.current, st.content, st.inCallout, st.processed)

\* "Add the last message"
FinalFlush(st) ==
    IF st.current = "none" THEN st
    ELSE LET p == parseUserPrompt(CalloutBuffer(st.content, st.inCallout),
                                  st.processed)
         IN  ParseState(Append(st.messages, Message(st.current, p.prompt)),
                        st.current, st.content, st.inCallout, p.processed)

\* a plausible bug: only the even indexes are checked
RolesAlternate_evenOnly(messages) ==
    \A i \in 1..Len(messages) :
        (i - 1) % 2 = 0 => messages[i].role = "user"

\* "Validate the chat format": no index breaks the alternation
RolesAlternate(messages) ==
    \A i \in 1..Len(messages) :
        /\ ((i - 1) % 2 = 0 => messages[i].role = "user")
        /\ ((i - 1) % 2 = 1 => messages[i].role = "assistant")

\* a plausible bug: a text without any turn gives the null result
parseChat_nullIfEmpty(text) ==
    LET st == FinalFlush(ParseLines(ParseStart, SplitLines(text)))
    IN  IF RolesAlternate(st.messages) /\ st.messages # <<>>
        THEN [ok |-> TRUE, messages |-> st.messages]
        ELSE [ok |-> FALSE, messages |-> <<>>]

\* [ok, messages]: ok = FALSE is the null result
parseChat(text) ==
    LET st == FinalFlush(ParseLines(ParseStart, SplitLines(text)))
    IN  IF RolesAlternate(st.messages)
        THEN [ok |-> TRUE, messages |-> st.messages]
        ELSE [ok |-> FALSE, messages |-> <<>>]

---------------------------------------------------------------------------
(* chat.ts: detectChatFormat and validateChatFormat.                       *)

IsHeaderMarker(line) ==
    StartsWith(line, HEADER_USER_PREFIX) \/ StartsWith(line, HEADER_AI_PREFIX)

\* a plausible bug: only the user marker counts as a Callouts marker
IsCalloutMarker_userOnly(line) == StartsWith(line, CALLOUT_USER_PREFIX)

IsCalloutMarker(line) ==
    StartsWith(line, CALLOUT_USER_PREFIX) \/ StartsWith(line, CALLOUT_AI_PREFIX)

RECURSIVE DetectLoop(_, _, _)
DetectLoop(lines, hasHeaders, hasCallouts) ==
    IF lines = <<>>
    THEN IF hasHeaders THEN "headers"
         ELSE IF hasCallouts THEN "callouts"
         ELSE "empty"
    ELSE LET h == hasHeaders \/ IsHeaderMarker(Head(lines))
             c == hasCallouts
                    \/ (~IsHeaderMarker(Head(lines)) /\ IsCalloutMarker(Head(lines)))
         IN  IF h /\ c THEN "mixed" ELSE DetectLoop(Tail(lines), h, c)

\* a plausible bug: the flags are only looked at after the loop, headers first
detectChatFormat_headersFirst(text) ==
    IF \E i \in 1..Len(SplitLines(text)) : IsHeaderMarker(SplitLines(text)[i])
    THEN "headers"
    ELSE IF \E i \in 1..Len(SplitLines(text)) : IsCalloutMarker(SplitLines(text)[i])
    THEN "callouts"
    ELSE "empty"

detectChatFormat(text) == DetectLoop(SplitLines(text), FALSE, FALSE)

Invalid(type, message) ==
    [isValid |-> FALSE, format |-> "none", type |-> type, message |-> message]

Valid(format) ==
    [isValid |-> TRUE, format |-> format, type |-> "none", message |-> "none"]

\* a plausible bug: marker lines count as content
HasContent_anyLine(text) ==
    \E i \in 1..Len(SplitLines(text)) : Len(Trim(SplitLines(text)[i])) > 0

HasContent(text) ==
    \E i \in 1..Len(SplitLines(text)) :
        LET line == SplitLines(text)[i]
        IN  /\ ~StartsWith(line, HEADER_USER_PREFIX)
            /\ ~StartsWith(line, HEADER_AI_PREFIX)
            /\ ~StartsWith(line, CALLOUT_USER_PREFIX)
            /\ ~StartsWith(line, CALLOUT_AI_PREFIX)
            /\ Len(Trim(line)) > 0

validateChatFormat(text, useCallouts) ==
    LET detectedFormat == detectChatFormat(text)
    IN  IF detectedFormat = "mixed" THEN Invalid("format", "mixed formatting")
        ELSE IF detectedFormat = "empty"
        THEN Invalid("format", "no valid formatting")
        ELSE IF detectedFormat = "headers" /\ useCallouts
        THEN Invalid("format", "uses header format")
        ELSE IF detectedFormat = "callouts" /\ ~useCallouts
        THEN Invalid("format", "uses callout format")
        ELSE IF ~HasContent(text)
        THEN Invalid("empty_message", "query message is empty")
        ELSE Valid(detectedFormat)

---------------------------------------------------------------------------
(* chat.ts: the section and callout formatters.                            *)

formatNewUserSection(useCallouts, forNewFile) ==
    (IF forNewFile THEN <<>> ELSE <<NL, NL>>)
        \o (IF useCallouts THEN CALLOUT_USER_PREFIX \o <<NL, ">", SP>>
            ELSE HEADER_USER_PREFIX \o <<NL>>)

formatNewAISection(useCallouts) ==
    <<NL, NL>> \o (IF useCallouts THEN CALLOUT_AI_PREFIX ELSE HEADER_AI_PREFIX)
        \o <<NL>>

processCalloutContent(text) ==
    JoinLines([i \in 1..Len(SplitLines(text)) |->
        IF Trim(SplitLines(text)[i]) = <<>> THEN <<">">>
        ELSE QuotePrefix \o SplitLines(text)[i]])

\* C34: in Callouts mode the streamed and the non-streamed response are
\* formatted alike: the chunks of a text, fed from state true, give together
\* what processCalloutContent gives for the whole text.
C34_StreamedEqualsWhole ==
    (tInit /\ tPos = Len(tText)) => tOut = processCalloutContent(tText)

---------------------------------------------------------------------------
(* Documents and the utilities applied to them.                            *)

\* the lines a document is made of: the four markers, a heading that only
\* starts like a marker ("### Mex"), an empty line, a quoted line, and a
\* line with references ("[[M]] [[N]] [[N|x]]": M does not resolve)
RefLine == <<"[[", "M", "]]", SP, "[[", "N", "]]", SP, "[[", "N", "|", "x", "]]">>

LinePool ==
    { HEADER_USER_PREFIX, HEADER_AI_PREFIX, CALLOUT_USER_PREFIX, CALLOUT_AI_PREFIX,
      HEADER_USER_PREFIX \o <<"x">>, <<>>, <<">", SP, "a">>, RefLine }

\* the note of a new chat with nothing typed, in either format
NewChatDocuments == { formatNewUserSection(useCallouts, TRUE) : useCallouts \in BOOLEAN }

Documents ==
    { JoinLines(lines) : lines \in SeqsUpTo(LinePool, MaxLines) }
        \union NewChatDocuments

\* longer Headers conversations made of markers and the line with references
RefLinePool == { HEADER_USER_PREFIX, HEADER_AI_PREFIX, RefLine }

RefDocuments == { JoinLines(lines) : lines \in SeqsUpTo(RefLinePool, MaxRefLines) }

\* conversations whose lines are quoted once, twice or not at all
MaxQuoteLines == 4

QuoteLinePool ==
    { HEADER_USER_PREFIX, HEADER_AI_PREFIX, CALLOUT_USER_PREFIX, CALLOUT_AI_PREFIX,
      <<">", SP, ">", SP, "a">>, <<"a">>, <<">">> }

QuoteDocuments == { JoinLines(lines) : lines \in SeqsUpTo(QuoteLinePool, MaxQuoteLines) }

NoValidation == Invalid("none", "none")
NoParse == [ok |-> FALSE, messages |-> <<>>]

MarkerOf(role, format) ==
    IF format = "callouts"
    THEN (IF role = "user" THEN CALLOUT_USER_PREFIX ELSE CALLOUT_AI_PREFIX)
    ELSE (IF role = "user" THEN HEADER_USER_PREFIX ELSE HEADER_AI_PREFIX)

\* a turn written back: its marker line, then its content, quote-prefixed
\* in Callouts
SerializeTurn(message, format) ==
    MarkerOf(message.role, format) \o <<NL>> \o
        (IF format = "callouts" THEN processCalloutContent(message.content)
         ELSE message.content)

RECURSIVE Serialize(_, _)
Serialize(messages, format) ==
    IF messages = <<>> THEN <<>>
    ELSE IF Len(messages) = 1 THEN SerializeTurn(messages[1], format)
    ELSE SerializeTurn(messages[1], format) \o <<NL>>
             \o Serialize(Tail(messages), format)

Detect ==
    /\ dOp = "none"
    /\ dOp' = "detect"
    /\ dDetected' = detectChatFormat(dDoc)
    /\ UNCHANGED <<dDoc, dUseCallouts, dValidation, dParsed, dSerialized, dReparsed>>
    /\ UNCHANGED <<tVars, sVars, rVars, cVars, hVars, pVars, fVars, eVars, kVars, nVars>>

Validate ==
    /\ dOp = "none"
    /\ dOp' = "validate"
    /\ \E useCallouts \in BOOLEAN :
        /\ dUseCallouts' = useCallouts
        /\ dValidation' = validateChatFormat(dDoc, useCallouts)
    /\ UNCHANGED <<dDoc, dDetected, dParsed, dSerialized, dReparsed>>
    /\ UNCHANGED <<tVars, sVars, rVars, cVars, hVars, pVars, fVars, eVars, kVars, nVars>>

Parse ==
    /\ dOp = "none"
    /\ dOp' = "parse"
    /\ dParsed' = parseChat(dDoc)
    /\ UNCHANGED <<dDoc, dUseCallouts, dDetected, dValidation, dSerialized, dReparsed>>
    /\ UNCHANGED <<tVars, sVars, rVars, cVars, hVars, pVars, fVars, eVars, kVars, nVars>>

\* parse, write the turns back in the document's own format, parse again
RoundTrip ==
    /\ dOp = "none"
    /\ detectChatFormat(dDoc) \in {"headers", "callouts"}
    /\ parseChat(dDoc).ok
    /\ dOp' = "roundtrip"
    /\ dDetected' = detectChatFormat(dDoc)
    /\ dParsed' = parseChat(dDoc)
    /\ dSerialized' = Serialize(parseChat(dDoc).messages, detectChatFormat(dDoc))
    /\ dReparsed' = parseChat(dSerialized')
    /\ UNCHANGED <<dDoc, dUseCallouts, dValidation>>
    /\ UNCHANGED <<tVars, sVars, rVars, cVars, hVars, pVars, fVars, eVars, kVars, nVars>>

DNext ==
    \/ Detect
    \/ Validate
    \/ Parse
    \/ RoundTrip

---------------------------------------------------------------------------
(* Properties of the document utilities.                                   *)

DocLines == SplitLines(dDoc)

IsUserMarkerLine(line) ==
    StartsWith(line, HEADER_USER_PREFIX) \/ StartsWith(line, CALLOUT_USER_PREFIX)

IsAIMarkerLine(line) ==
    StartsWith(line, HEADER_AI_PREFIX) \/ StartsWith(line, CALLOUT_AI_PREFIX)

IsMarkerLine(line) == IsUserMarkerLine(line) \/ IsAIMarkerLine(line)

\* the roles the marker lines announce, in document order
RECURSIVE MarkerRoles(_)
MarkerRoles(lines) ==
    IF lines = <<>> THEN <<>>
    ELSE (IF IsUserMarkerLine(Head(lines)) THEN <<"user">>
          ELSE IF IsAIMarkerLine(Head(lines)) THEN <<"assistant">>
          ELSE <<>>) \o MarkerRoles(Tail(lines))

StrictAlternation(roles) ==
    \A i \in 1..Len(roles) : roles[i] = (IF i % 2 = 1 THEN "user" ELSE "assistant")

RolesOf(messages) == [i \in 1..Len(messages) |-> messages[i].role]

\* C4: parseChat returns null exactly when the roles announced by the marker
\* lines do not alternate strictly from User on; otherwise it returns one
\* turn per marker, in the markers' order and with the markers' roles.
C4_NullIffNotAlternating ==
    dOp = "parse" =>
        /\ dParsed.ok <=> StrictAlternation(MarkerRoles(DocLines))
        /\ dParsed.ok => RolesOf(dParsed.messages) = MarkerRoles(DocLines)

\* a document starting with a User marker whose later markers break the
\* alternation was parsed to null
C4_Witness ==
    /\ dOp = "parse"
    /\ ~dParsed.ok
    /\ Len(MarkerRoles(DocLines)) >= 3
    /\ MarkerRoles(DocLines)[1] = "user"
    /\ MarkerRoles(DocLines)[2] = "assistant"

\* number of places where pattern occurs in text
Occurrences(text, pattern) ==
    Cardinality({ k \in 1..(Len(text) - Len(pattern) + 1) :
                    SubSeq(text, k, k + Len(pattern) - 1) = pattern })

RECURSIVE SectionCount(_, _)
SectionCount(messages, token) ==
    IF messages = <<>> THEN 0
    ELSE Occurrences(Head(messages).content, ContextSection(token, <<>>))
             + SectionCount(Tail(messages), token)

Tokens == { <<"N">>, <<"M">> }

Resolvable(token) ==
    /\ resolveWikilink(DefaultNote, token).found
    /\ resolveWikilink(DefaultNote, token).content # <<>>

MarkerIndexes == { i \in 1..Len(DocLines) : IsMarkerLine(DocLines[i]) }

\* the marker line that opens the turn holding line j (0: j precedes all turns)
OpeningMarker(j) ==
    IF \E i \in MarkerIndexes : i < j
    THEN CHOOSE i \in MarkerIndexes : i < j /\ \A k \in MarkerIndexes : k < j => k <= i
    ELSE 0

\* the lines of turn bodies that mention the token
MentionLines(token) ==
    { j \in 1..Len(DocLines) :
        /\ ~IsMarkerLine(DocLines[j])
        /\ OpeningMarker(j) # 0
        /\ \E k \in 1..Len(extractWikilinks(DocLines[j])) :
               extractWikilinks(DocLines[j])[k] = token }

MentionsIn(j, token) ==
    Cardinality({ k \in 1..Len(extractWikilinks(DocLines[j])) :
                    extractWikilinks(DocLines[j])[k] = token })

\* line j lies in a User turn or in the last turn
InExpandedTurn(j) ==
    \/ IsUserMarkerLine(DocLines[OpeningMarker(j)])
    \/ \A i \in MarkerIndexes : i <= OpeningMarker(j)

\* the token is mentioned several times in one User turn, or in several turns
MentionedMoreThanOnce(token) ==
    \/ \E j \in MentionLines(token) :
        /\ IsUserMarkerLine(DocLines[OpeningMarker(j)])
        /\ \/ MentionsIn(j, token) >= 2
           \/ \E k \in MentionLines(token) :
                  k # j /\ OpeningMarker(k) = OpeningMarker(j)
    \/ \E j, k \in MentionLines(token) : OpeningMarker(j) # OpeningMarker(k)

\* C5 as stated: a resolvable token mentioned several times in one User turn,
\* or in several turns, of one parse yields exactly one context section in
\* the turn list.
C5_ExactlyOneSection ==
    (dOp = "parse" /\ dParsed.ok) =>
        \A token \in Tokens :
            (Resolvable(token) /\ MentionedMoreThanOnce(token))
            => SectionCount(dParsed.messages, token) = 1

\* C5 amended: a token never yields more than one context section in the
\* turn list of one parse, however often it is mentioned; it yields one
\* exactly when it resolves and one of its mentions is in a User turn or in
\* the last turn (other Assistant turns are stored without expansion).
C5_AtMostOneSection ==
    (dOp = "parse" /\ dParsed.ok) =>
        \A token \in Tokens :
            /\ SectionCount(dParsed.messages, token) <= 1
            /\ SectionCount(dParsed.messages, token) = 1 <=>
                   (Resolvable(token) /\ \E j \in MentionLines(token) : InExpandedTurn(j))

\* the note is mentioned twice in the User turn and twice again in the last
\* turn, and the turn list holds one section for it
C5_Witness ==
    /\ dOp = "parse"
    /\ dParsed.ok
    /\ Len(dParsed.messages) = 2
    /\ Cardinality(MentionLines(NoteName)) = 2
    /\ \A j \in MentionLines(NoteName) : MentionsIn(j, NoteName) = 2
    /\ SectionCount(dParsed.messages, NoteName) = 1

\* a line of the written-back turns would be read as a turn marker
ContentLooksLikeMarker(messages, format) ==
    \E i \in 1..Len(messages) :
        LET body == IF format = "callouts"
                    THEN processCalloutContent(messages[i].content)
                    ELSE messages[i].content
        IN  \E k \in 1..Len(SplitLines(body)) : IsMarkerLine(SplitLines(body)[k])

HasBlankLine(text) ==
    \E k \in 1..Len(SplitLines(text)) :
        \A c \in 1..Len(SplitLines(text)[k]) : IsWhitespace(SplitLines(text)[k][c])

C7_BothKindsMixed ==
    dOp = "detect" =>
        ((/\ \E i \in 1..Len(DocLines) : IsHeaderMarker(DocLines[i])
          /\ \E i \in 1..Len(DocLines) : IsCalloutMarker(DocLines[i]))
         => dDetected = "mixed")

\* detection ran on a document whose first marker is a Callouts marker, which
\* has a Headers marker later and a plain line in between
C7_Witness ==
    /\ dOp = "detect"
    /\ dDetected = "mixed"
    /\ Len(DocLines) >= 3
    /\ IsCalloutMarker(DocLines[1])
    /\ ~IsMarkerLine(DocLines[2])
    /\ IsHeaderMarker(DocLines[Len(DocLines)])

\* some line is no marker line and has a character that is not whitespace
NonBlankContentLine ==
    \E i \in 1..Len(DocLines) :
        /\ ~IsMarkerLine(DocLines[i])
        /\ \E c \in 1..Len(DocLines[i]) : ~IsWhitespace(DocLines[i][c])

ConfiguredFormat == IF dUseCallouts THEN "callouts" ELSE "headers"

\* C8: validation succeeds, with the detected format, exactly for a document
\* of the configured single format with a non-blank line that is no marker;
\* otherwise the one failure is: mixed, else no structure, else format
\* mismatch, else empty query.
C8_ValidIff ==
    dOp = "validate" =>
        LET format == detectChatFormat(dDoc)
        IN  /\ dValidation.isValid <=>
                (/\ format \in {"headers", "callouts"}
                 /\ format = ConfiguredFormat
                 /\ NonBlankContentLine)
            /\ dValidation.isValid => dValidation = Valid(format)
            /\ ~dValidation.isValid =>
                dValidation =
                    (IF format = "mixed" THEN Invalid("format", "mixed formatting")
                     ELSE IF format = "empty"
                     THEN Invalid("format", "no valid formatting")
                     ELSE IF format # ConfiguredFormat
                     THEN Invalid("format",
                              IF format = "headers" THEN "uses header format"
                              ELSE "uses callout format")
                     ELSE Invalid("empty_message", "query message is empty"))

\* a Callouts document of markers and empty lines only, validated with
\* callouts configured, was rejected as an empty query
C8_Witness ==
    /\ dOp = "validate"
    /\ dUseCallouts
    /\ Len(DocLines) >= 3
    /\ dValidation = Invalid("empty_message", "query message is empty")

\* the example document: user marker, question with a reference to the note,
\* assistant marker, with or without a final line terminator
ExampleQuestion(doc) ==
    \/ doc = JoinLines(<<HEADER_USER_PREFIX, RefLine, HEADER_AI_PREFIX>>)
    \/ doc = JoinLines(<<HEADER_USER_PREFIX, RefLine, HEADER_AI_PREFIX, <<>>>>)

\* C10 as stated: the User turn is the raw question, the Assistant turn empty.
C10_RawQuestionOnly ==
    (dOp = "parse" /\ ExampleQuestion(dDoc)) =>
        /\ dParsed.ok
        /\ dParsed.messages =
               <<Message("user", RefLine), Message("assistant", <<>>)>>

\* C10 amended: the document yields two turns; the User turn is
\* "User query: " + question + the context section of the note, and the
\* Assistant turn is "User query: " (the expansion of the empty text).
C10_ExpandedQuestion ==
    (dOp = "parse" /\ ExampleQuestion(dDoc)) =>
        /\ dParsed.ok
        /\ dParsed.messages =
               << Message("user", UserQueryPrefix \o RefLine
                                      \o ContextSection(NoteName, NoteBody)),
                  Message("assistant", UserQueryPrefix) >>

\* the example document, ending with a line terminator, was parsed
C10_Witness ==
    /\ dOp = "parse"
    /\ dDoc = JoinLines(<<HEADER_USER_PREFIX, RefLine, HEADER_AI_PREFIX, <<>>>>)
    /\ Len(dParsed.messages) = 2

---------------------------------------------------------------------------
(* resolveWikilink and parseUserPrompt applied to bounded inputs.          *)

MaxNoteLines == 3
MaxTokens == 3

NoExpansion == [prompt |-> <<>>, processed |-> {}]

\* the lines the note H is made of
NoteLinePool ==
    { <<"#", SP, "A">>, <<"#", "#", SP, "A">>, <<"#", "#", SP, "A", "B">>,
      <<"#", SP, "B">>, <<"x">>, <<"x", SP, "^", "k">> }

Notes == { JoinLines(lines) : lines \in SeqsUpTo(NoteLinePool, MaxNoteLines) }

\* link texts: a note, an unknown name, the empty note, a display name,
\* headings of H, an unknown heading, a block anchor, an unknown anchor
Links ==
    { <<"N">>, <<"M">>, <<"E">>, <<"N", "|", "x">>, <<"H">>,
      <<"H", "#", "A">>, <<"H", "#", "B">>, <<"H", "#", "A", "B">>,
      <<"H", "#", "Z">>, <<"H", "#", "^", "k">>, <<"H", "#", "^", "z">>,
      <<"N", "#", "A">> }

\* the references a user query is made of
TokenPool ==
    { <<"[[", "N", "]]">>, <<"[[", "M", "]]">>, <<"[[", "E", "]]">>,
      <<"[[", "N", "|", "x", "]]">>, <<"[[", "H", "#", "A", "]]">>,
      <<"[[", "H", "#", "Z", "]]">>, <<"[[", "H", "#", "^", "k", "]]">>,
      <<"[[", "H", "#", "^", "z", "]]">> }

RECURSIVE JoinWords(_)
JoinWords(words) ==
    IF words = <<>> THEN <<>>
    ELSE IF Len(words) = 1 THEN words[1]
    ELSE words[1] \o <<SP>> \o JoinWords(Tail(words))

Queries == { JoinWords(words) : words \in SeqsUpTo(TokenPool, MaxTokens) }

Resolve ==
    /\ rOp = "none"
    /\ rOp' = "resolve"
    /\ rResolved' = resolveWikilink(rNote, rLink)
    /\ UNCHANGED <<rNote, rLink, rText, rProcessed, rExpanded>>
    /\ UNCHANGED <<tVars, sVars, dVars, cVars, hVars, pVars, fVars, eVars, kVars, nVars>>

Expand ==
    /\ rOp = "none"
    /\ rOp' = "expand"
    /\ rExpanded' = parseUserPrompt(rText, rProcessed)
    /\ UNCHANGED <<rNote, rLink, rResolved, rText, rProcessed>>
    /\ UNCHANGED <<tVars, sVars, dVars, cVars, hVars, pVars, fVars, eVars, kVars, nVars>>

ResolverNext == Resolve

ExpansionNext ==
    \/ Expand
    \/ Parse

\* the tokens of a token list, each once, in order of first occurrence
RECURSIVE FirstOccurrences(_, _)
FirstOccurrences(tokens, seen) ==
    IF tokens = <<>> THEN <<>>
    ELSE IF Head(tokens) \in seen THEN FirstOccurrences(Tail(tokens), seen)
    ELSE <<Head(tokens)>> \o FirstOccurrences(Tail(tokens), seen \cup {Head(tokens)})

RECURSIVE SectionsOf(_)
SectionsOf(tokens) ==
    IF tokens = <<>> THEN <<>>
    ELSE ContextSection(Head(tokens), resolveWikilink(DefaultNote, Head(tokens)).content)
             \o SectionsOf(Tail(tokens))

Resolves(token) == resolveWikilink(DefaultNote, token).found

NewAndResolves(token) == token \notin rProcessed /\ Resolves(token)

\* C11: the expansion of a text is "User query: " + the text + one context
\* section for each distinct token of the text that is not in the processed
\* set and that resolves, in order of first occurrence, and nothing else.
C11_ExpansionShape ==
    rOp = "expand" =>
        rExpanded.prompt =
            UserQueryPrefix \o rText
                \o SectionsOf(SelectSeq(FirstOccurrences(extractWikilinks(rText), {}),
                                        NewAndResolves))

QueryTokens == { extractWikilinks(rText)[i] : i \in 1..Len(extractWikilinks(rText)) }

\* C13: when the query of a single User turn holds a token that does not
\* resolve, parseChat still returns the turn list, the token has no context
\* section, and every token of the query that resolves has its section.
C13_MissIsSkipped ==
    (dOp = "parse" /\ \E token \in QueryTokens : ~Resolves(token)) =>
        /\ dParsed.ok
        /\ Len(dParsed.messages) = 1
        /\ \A token \in QueryTokens :
            SectionCount(dParsed.messages, token) = (IF Resolves(token) THEN 1 ELSE 0)

\* the text with the display name ("|" and what follows it) taken out of
\* every bracketed reference
RECURSIVE Unlabelled(_, _, _)
Unlabelled(text, inLink, inLabel) ==
    IF text = <<>> THEN <<>>
    ELSE IF Head(text) = "[[" THEN <<"[[">> \o Unlabelled(Tail(text), TRUE, FALSE)
    ELSE IF Head(text) = "]]" THEN <<"]]">> \o Unlabelled(Tail(text), FALSE, FALSE)
    ELSE IF inLink /\ (inLabel \/ Head(text) = "|")
    THEN Unlabelled(Tail(text), TRUE, TRUE)
    ELSE <<Head(text)>> \o Unlabelled(Tail(text), inLink, FALSE)

\* what the expansion appended to "User query: " + the text
AppendedTo(text, prompt) ==
    SubSeq(prompt, Len(UserQueryPrefix) + Len(text) + 1, Len(prompt))

\* C24: a reference with a display name is the token before the "|": the
\* text expands as the same text without display names does (same tokens,
\* same sections, same processed set), a note referred to with and without
\* a display name gets one section, and no section label holds a "|".
C24_DisplayNameIgnored ==
    rOp = "expand" =>
        LET plain == Unlabelled(rText, FALSE, FALSE)
            sections == AppendedTo(rText, rExpanded.prompt)
        IN  /\ extractWikilinks(rText) = extractWikilinks(plain)
            /\ rExpanded.prompt = UserQueryPrefix \o rText \o sections
            /\ sections = AppendedTo(plain, parseUserPrompt(plain, rProcessed).prompt)
            /\ rExpanded.processed = parseUserPrompt(plain, rProcessed).processed
            /\ Occurrences(sections, ContextSection(NoteName, <<>>)) <= 1
            /\ Occurrences(sections, <<"|">>) = 0

\* "[[N|x]] [[N]]" was expanded with nothing processed before: one section,
\* labelled [[N]]
C24_Witness ==
    /\ rOp = "expand"
    /\ rText = <<"[[", "N", "|", "x", "]]", SP, "[[", "N", "]]">>
    /\ rProcessed = {}
    /\ rExpanded.prompt = UserQueryPrefix \o rText \o ContextSection(NoteName, NoteBody)
    /\ rExpanded.processed = {NoteName}

NoteLines == SplitLines(rNote)

\* the sub-target of the link, when the link is to the note H
SubTarget == Tail(SplitAt(rLink, "#", <<>>))[1]

LinksHeadingOfNote ==
    /\ Len(SplitAt(rLink, "#", <<>>)) = 2
    /\ SplitAt(rLink, "#", <<>>)[1] = HeadingNoteName
    /\ \E i \in 1..Len(NoteLines) :
        IsHeadingLine(NoteLines[i]) /\ HeadingOf(NoteLines[i]).heading = SubTarget

\* the first heading line with the sub-target's name
TargetLine ==
    CHOOSE i \in 1..Len(NoteLines) :
        /\ IsHeadingLine(NoteLines[i]) /\ HeadingOf(NoteLines[i]).heading = SubTarget
        /\ \A j \in 1..(i - 1) :
            ~(IsHeadingLine(NoteLines[j]) /\ HeadingOf(NoteLines[j]).heading = SubTarget)

\* the first heading line after the target of equal or shallower level, or
\* the line after the last
SectionEnd ==
    LET closing == { j \in (TargetLine + 1)..Len(NoteLines) :
                       /\ IsHeadingLine(NoteLines[j])
                       /\ LeadingHashes(NoteLines[j]) <= LeadingHashes(NoteLines[TargetLine]) }
    IN  IF closing = {} THEN Len(NoteLines) + 1
        ELSE CHOOSE j \in closing : \A k \in closing : j <= k

\* C14: for a link whose sub-target names a heading of the note, the result
\* is the text from that heading's line up to, not including, the next
\* heading line of equal or shallower level, or up to the end of the note.
C14_HeadingSection ==
    (rOp = "resolve" /\ LinksHeadingOfNote) =>
        /\ rResolved.found
        /\ rResolved.content = JoinLines(SubSeq(NoteLines, TargetLine, SectionEnd - 1))

---------------------------------------------------------------------------
(* insertTemplate / positionCursorInTemplate on an editor.                 *)
(* The editor is its lines and its cursor; positions are 0-based.          *)

MaxTemplate == 3

Position(line, ch) == [line |-> line, ch |-> ch]

cursorPlaceholder == <<"{cursor}">>

\* editor.replaceRange(text, pos): the text is inserted at pos
ReplaceRange(lines, text, pos) ==
    LET line == lines[pos.line + 1]
    IN  SubSeq(lines, 1, pos.line)
            \o SplitLines(SubSeq(line, 1, pos.ch) \o text
                              \o SubSeq(line, pos.ch + 1, Len(line)))
            \o SubSeq(lines, pos.line + 2, Len(lines))

\* String.prototype.replace(cursorPlaceholder, ""): the first occurrence goes
ReplaceFirst(templateText, index) ==
    SubSeq(templateText, 1, index)
        \o SubSeq(templateText, index + Len(cursorPlaceholder) + 1, Len(templateText))

\* finalLine and finalCh for the text that ends where the cursor goes
FinalPosition(insertPos, text) ==
    LET lines == SplitLines(text)
    IN  Position(insertPos.line + Len(lines) - 1,
                 IF Len(lines) = 1 THEN insertPos.ch + Len(lines[1])
                 ELSE Len(lines[Len(lines)]))

TemplateAlphabet == {"a", NL, "{cursor}"}

Templates == SeqsUpTo(TemplateAlphabet, MaxTemplate)

EditorLines == { << <<>> >>, << <<"x">> >>, << <<"x", "x">>, <<"x">> >> }

\* insertTemplate: the template goes in at the cursor
InsertTemplate ==
    /\ cOp = "none"
    /\ cOp' = "insert"
    /\ LET insertPos == cCursor
           placeholderIndex == IndexOf(cTemplate, cursorPlaceholder)
       IN  /\ cInsertPos' = insertPos
           /\ IF placeholderIndex # -1
              THEN /\ cLines' = ReplaceRange(cLines,
                                    ReplaceFirst(cTemplate, placeholderIndex), insertPos)
                   /\ cCursor' = FinalPosition(insertPos,
                                     SubSeq(cTemplate, 1, placeholderIndex))
              ELSE /\ cLines' = ReplaceRange(cLines, cTemplate, insertPos)
                   /\ cCursor' = FinalPosition(insertPos, cTemplate)
    /\ UNCHANGED <<cTemplate, cLines0>>
    /\ UNCHANGED <<tVars, sVars, dVars, rVars, hVars, pVars, fVars, eVars, kVars, nVars>>

TemplateNext == InsertTemplate

\* where the cursor stands after the text was typed at pos
RECURSIVE TypedAt(_, _)
TypedAt(pos, text) ==
    IF text = <<>> THEN pos
    ELSE TypedAt(IF Head(text) = NL THEN Position(pos.line + 1, 0)
                 ELSE Position(pos.line, pos.ch + 1),
                 Tail(text))

HasPlaceholder(text) == \E i \in 1..Len(text) : text[i] = "{cursor}"

\* the text of the template before its first placeholder
BeforePlaceholder(text) ==
    SubSeq(text, 1, (CHOOSE i \in 1..Len(text) :
                        text[i] = "{cursor}" /\ \A j \in 1..(i - 1) : text[j] # "{cursor}") - 1)

\* C15: after the insertion no line of the editor holds the placeholder;
\* with a placeholder in the template the cursor is where typing the text
\* before the placeholder at the insertion point would have left it, and
\* without one it is at the end of the inserted text.
C15_CursorAtPlaceholder ==
    cOp = "insert" =>
        /\ \A i \in 1..Len(cLines) : ~HasPlaceholder(cLines[i])
        /\ cCursor = (IF HasPlaceholder(cTemplate)
                      THEN TypedAt(cInsertPos, BeforePlaceholder(cTemplate))
                      ELSE TypedAt(cInsertPos, cTemplate))

---------------------------------------------------------------------------
(* StreamingResponseHandler: process and processResponse, one handler      *)
(* taking the unified events of chatService.streamMessage(request).        *)

MaxSessions == 2
MaxEvents == 3

\* the fields tokenCount and isStartOfLine
FieldsAt(isStartOfLine, tokenCount) ==
    [isStartOfLine |-> isStartOfLine, tokenCount |-> tokenCount]

\* the unified events a stream hands to the handler
HandlerEvents ==
    { Content(<<"a">>), Content(<<"a", NL>>), Content(<<>>), Usage(12), Done,
      Error("upstream") }

\* a plausible bug: the chunk is quoted whatever the configured format
OnContent_alwaysQuote(appended, isStartOfLine, useCallouts, content) ==
    LET r == processStreamingCalloutContent(content, isStartOfLine)
    IN  [appended |-> appended \o r.processedChunk,
         isStartOfLine |-> r.newIsStartOfLine]

\* a "content" event with non-empty content: what is rendered, and the field
OnContent(appended, isStartOfLine, useCallouts, content) ==
    IF useCallouts
    THEN LET r == processStreamingCalloutContent(content, isStartOfLine)
         IN  [appended |-> appended \o r.processedChunk,
              isStartOfLine |-> r.newIsStartOfLine]
    ELSE [appended |-> appended \o content, isStartOfLine |-> isStartOfLine]

\* renderTokenCount's text
TokenText(useCallouts, tokenCount) ==
    (IF useCallouts THEN <<NL, ">", SP>> ELSE <<NL>>)
        \o <<"(", ToString(tokenCount), SP, "tokens", ")">>

\* process after processResponse returned: the statistics and the new section
AfterResponse(appended, showStats, useCallouts, tokenCount) ==
    (IF showStats THEN appended \o TokenText(useCallouts, tokenCount) ELSE appended)
        \o formatNewUserSection(useCallouts, FALSE)

\* a plausible bug: the new user section is added in a finally block
AfterError_newSection(appended, useCallouts) ==
    appended \o formatNewUserSection(useCallouts, FALSE)

\* process's catch: a Notice, nothing is rendered
AfterError(appended, useCallouts) == appended

\* process is called: the assistant marker is rendered and the stream asked for
StartProcess ==
    /\ hPhase \in {"idle", "completed", "failed"}
    /\ hSession < MaxSessions
    /\ hSession' = hSession + 1
    /\ hPhase' = "streaming"
    /\ hStart' = FieldsAt(hIsStartOfLine, hTokenCount)
    /\ hAppended' = formatNewAISection(hUseCallouts)
    /\ hRequests' = 1
    /\ hIterator' = "open"
    /\ hConsumed' = <<>>
    /\ UNCHANGED <<hUseCallouts, hShowStats, hTokenCount, hIsStartOfLine>>
    /\ UNCHANGED <<tVars, sVars, dVars, rVars, cVars, pVars, fVars, eVars, kVars, nVars>>

\* the stream hands over its next event: one turn of the for-await loop
HandleEvent ==
    /\ hPhase = "streaming"
    /\ hIterator = "open"
    /\ Len(hConsumed) < MaxEvents
    /\ \E event \in HandlerEvents :
        /\ hConsumed' = Append(hConsumed, event)
        /\ IF event.type = "content" /\ event.content # <<>>
           THEN LET r == OnContent(hAppended, hIsStartOfLine, hUseCallouts, event.content)
                IN  /\ hAppended' = r.appended
                    /\ hIsStartOfLine' = r.isStartOfLine
                    /\ UNCHANGED <<hTokenCount, hPhase, hIterator>>
           ELSE IF event.type = "usage"
           THEN /\ hTokenCount' = event.outputTokens
                /\ UNCHANGED <<hAppended, hIsStartOfLine, hPhase, hIterator>>
           ELSE IF event.type = "error"
           THEN /\ hIterator' = "closed"
                /\ hPhase' = "failed"
                /\ hAppended' = AfterError(hAppended, hUseCallouts)
                /\ UNCHANGED <<hTokenCount, hIsStartOfLine>>
           ELSE UNCHANGED <<hAppended, hIsStartOfLine, hTokenCount, hPhase, hIterator>>
    /\ UNCHANGED <<hUseCallouts, hShowStats, hSession, hStart, hRequests>>
    /\ UNCHANGED <<tVars, sVars, dVars, rVars, cVars, pVars, fVars, eVars, kVars, nVars>>

\* the stream is exhausted: the loop ends and process finishes the section
StreamEnds ==
    /\ hPhase = "streaming"
    /\ hIterator = "open"
    /\ hIterator' = "exhausted"
    /\ hPhase' = "completed"
    /\ hAppended' = AfterResponse(hAppended, hShowStats, hUseCallouts, hTokenCount)
    /\ UNCHANGED <<hUseCallouts, hShowStats, hTokenCount, hIsStartOfLine, hSession,
                   hStart, hRequests, hConsumed>>
    /\ UNCHANGED <<tVars, sVars, dVars, rVars, cVars, pVars, fVars, eVars, kVars, nVars>>

HandlerNext ==
    \/ StartProcess
    \/ HandleEvent
    \/ StreamEnds

\* C16: every call of process finds the transducer state at start-of-line
\* and the token count at 0, whatever the handler processed before.
C16_FreshSession ==
    hSession >= 1 => hStart = FieldsAt(TRUE, 0)

\* the payloads of the "content" events, one after another
RECURSIVE Payloads(_)
Payloads(events) ==
    IF events = <<>> THEN <<>>
    ELSE (IF Head(events).type = "content" THEN Head(events).content ELSE <<>>)
             \o Payloads(Tail(events))

\* the response text of the session: the payloads as they are, or quoted
\* from the state the session started in
ResponseText(events) ==
    IF hUseCallouts
    THEN processStreamingCalloutContent(Payloads(events), hStart.isStartOfLine).processedChunk
    ELSE Payloads(events)

ErrorConsumed == \E i \in 1..Len(hConsumed) : hConsumed[i].type = "error"

\* C17: once an "error" event has been taken, it is the last event taken
\* from the stream, the stream is closed, one request was made, and the
\* document holds the assistant marker and the response text received before
\* the error and nothing after it (no statistics, no new user section).
C17_ErrorEndsSession ==
    ErrorConsumed =>
        /\ \A i \in 1..Len(hConsumed) : hConsumed[i].type = "error" => i = Len(hConsumed)
        /\ hPhase = "failed"
        /\ hIterator = "closed"
        /\ hRequests = 1
        /\ hAppended = formatNewAISection(hUseCallouts) \o ResponseText(hConsumed)

\* with statistics on, a session that had rendered content and counted
\* tokens took an error before the event bound was reached
C17_Witness ==
    /\ hShowStats
    /\ hPhase = "failed"
    /\ Len(hConsumed) = 3
    /\ hConsumed[1].type = "content" /\ hConsumed[1].content # <<>>
    /\ hConsumed[2].type = "usage"

\* the last token count reported by the events taken, 0 without one
LastUsage(events, before) ==
    IF \E i \in 1..Len(events) : events[i].type = "usage"
    THEN events[CHOOSE i \in 1..Len(events) :
                    /\ events[i].type = "usage"
                    /\ \A j \in (i + 1)..Len(events) : events[j].type # "usage"].outputTokens
    ELSE before

\* C18: the text rendered in a session is the assistant marker, then the
\* payloads of the content events in arrival order, unchanged when Headers
\* are configured and passed through the quote transducer exactly when
\* Callouts are, then (after the stream ended) the statistics and the new
\* user section.
C18_QuoteIffCallouts ==
    hSession >= 1 =>
        /\ hAppended =
               formatNewAISection(hUseCallouts) \o ResponseText(hConsumed)
                   \o (IF hPhase = "completed"
                       THEN (IF hShowStats
                             THEN TokenText(hUseCallouts,
                                            LastUsage(hConsumed, hStart.tokenCount))
                             ELSE <<>>)
                                \o formatNewUserSection(hUseCallouts, FALSE)
                       ELSE <<>>)
        /\ ~hUseCallouts =>
               SubSeq(hAppended, Len(HEADER_AI_PREFIX) + 4,
                      Len(HEADER_AI_PREFIX) + 3 + Len(Payloads(hConsumed)))
                   = Payloads(hConsumed)

\* Headers configured: a response that came as "a\n", "", "a" was rendered
\* and the session completed
C18_Witness ==
    /\ ~hUseCallouts
    /\ hPhase = "completed"
    /\ hConsumed = <<Content(<<"a", NL>>), Content(<<>>), Content(<<"a">>)>>
    /\ hAppended = <<NL, NL>> \o HEADER_AI_PREFIX \o <<NL, "a", NL, "a", NL, NL>>
                       \o HEADER_USER_PREFIX \o <<NL>>

\* C32: a streaming session that ends with an "error" event before any
\* "content" event was taken leaves the document as it was before the
\* command: the session has rendered nothing.
C32_EarlyErrorLeavesDocument ==
    ( /\ hPhase = "failed"
      /\ \A i \in 1..Len(hConsumed) : hConsumed[i].type # "content" )
        => hAppended = <<>>

---------------------------------------------------------------------------
(* The last turn of a parsed document.                                     *)

LastMarker == CHOOSE i \in MarkerIndexes : \A k \in MarkerIndexes : k <= i

\* the lines after the last marker, without their quote prefix when the last
\* marker is a Callouts marker, joined and trimmed
LastBuffer ==
    LET lines == SubSeq(DocLines, LastMarker + 1, Len(DocLines))
        quoted == IsCalloutMarker(DocLines[LastMarker])
    IN  Trim(JoinLines([i \in 1..Len(lines) |->
            IF quoted /\ StartsWith(lines[i], QuotePrefix)
            THEN SubSeq(lines[i], 3, Len(lines[i])) ELSE lines[i]]))

\* the token resolves and no earlier turn of the list holds its section
FreshForLast(token) ==
    /\ Resolvable(token)
    /\ SectionCount(SubSeq(dParsed.messages, 1, Len(dParsed.messages) - 1), token) = 0

\* C20: the last turn of a parsed document, whatever its role, holds
\* "User query: " + the trimmed text buffered after the last marker + the
\* context sections of the references of that text not expanded before.
C20_LastTurnExpanded ==
    (dOp = "parse" /\ dParsed.ok /\ dParsed.messages # <<>>) =>
        dParsed.messages[Len(dParsed.messages)].content =
            UserQueryPrefix \o LastBuffer
                \o SectionsOf(SelectSeq(FirstOccurrences(extractWikilinks(LastBuffer), {}),
                                        FreshForLast))

\* the last turn is an Assistant turn whose text refers to the note, and it
\* holds the note's context section
C20_Witness ==
    /\ dOp = "parse"
    /\ dParsed.ok
    /\ Len(dParsed.messages) = 2
    /\ dParsed.messages[2].role = "assistant"
    /\ LastBuffer = RefLine
    /\ SectionCount(<<dParsed.messages[2]>>, NoteName) = 1

\* the format the validation was asked to expect
ExpectedFormat == IF dUseCallouts THEN "callouts" ELSE "headers"

\* C33: validateChatFormat accepts only documents whose last turn holds
\* non-blank text: a document of the expected format whose last turn is
\* blank (a new chat with nothing typed, a fresh user section after a
\* response) is rejected with the empty_message error.
C33_BlankLastTurnRejected ==
    ( /\ dOp = "validate"
      /\ detectChatFormat(dDoc) = ExpectedFormat
      /\ LastBuffer = <<>> )
        => (~dValidation.isValid /\ dValidation.type = "empty_message")

---------------------------------------------------------------------------
(* The flushes of parseChat, turn by turn.                                 *)

SingleFormat == detectChatFormat(dDoc) \in {"headers", "callouts"}

\* the loop state of parseChat after the first n lines of the document
LoopState(n) == ParseLines(ParseStart, SubSeq(DocLines, 1, n))

\* the line as a Callouts document stores it: without its first two
\* characters when these are ">" and a space
Unquoted(line) ==
    IF Len(line) >= 2 /\ line[1] = ">" /\ line[2] = SP
    THEN [i \in 1..(Len(line) - 2) |-> line[i + 2]]
    ELSE line

\* the text of the lines buffered when line j is met (j = Len(DocLines) + 1:
\* at the end), as the document's format stores it
BufferText(j) ==
    LET lines == SubSeq(DocLines, OpeningMarker(j) + 1, j - 1)
    IN  Trim(JoinLines([i \in 1..Len(lines) |->
            IF detectChatFormat(dDoc) = "callouts" THEN Unquoted(lines[i])
            ELSE lines[i]]))

\* the user markers that close a turn
ClosingUserMarkers ==
    { j \in MarkerIndexes : IsUserMarkerLine(DocLines[j]) /\ OpeningMarker(j) # 0 }

\* C21: at a user-turn marker the buffer is stored in the previous turn as
\* its plain trimmed text (unquoted in Callouts): no "User query: " prefix,
\* no context section, and the processed-reference set stays as it was.
C21_UserMarkerFlushPlain ==
    (dOp = "parse" /\ SingleFormat) =>
        \A j \in ClosingUserMarkers :
            LET stored == Message(MarkerRoles(<<DocLines[OpeningMarker(j)]>>)[1],
                                  BufferText(j))
            IN  /\ LoopState(j).messages = Append(LoopState(j - 1).messages, stored)
                /\ LoopState(j).processed = LoopState(j - 1).processed
                /\ dParsed.ok =>
                       dParsed.messages[Len(LoopState(j).messages)] = stored

\* an Assistant turn whose text has references was closed by a user marker
\* and is stored as that text
C21_Witness ==
    /\ dOp = "parse"
    /\ dDoc = JoinLines(<<HEADER_USER_PREFIX, HEADER_AI_PREFIX, RefLine,
                           HEADER_USER_PREFIX>>)
    /\ dParsed.ok
    /\ dParsed.messages[2] = Message("assistant", RefLine)

\* the index of the k-th marker line
NthMarker(k) ==
    CHOOSE i \in MarkerIndexes : Cardinality({ m \in MarkerIndexes : m <= i }) = k

\* the line that closes the k-th turn: the next marker, or the end of the text
TurnEnd(k) ==
    IF k < Cardinality(MarkerIndexes) THEN NthMarker(k + 1) ELSE Len(DocLines) + 1

\* the k-th turn is stored as plain text (a user marker closes it)
StoredPlain(k) ==
    k < Cardinality(MarkerIndexes) /\ IsUserMarkerLine(DocLines[NthMarker(k + 1)])

\* C22: in a Callouts document a buffered line that begins with "> " is
\* stored without exactly one "> " ("> > a" as "> a") and any other line as
\* it is; in a Headers document every line is stored as it is.
C22_OnePrefixStripped ==
    (dOp = "parse" /\ SingleFormat /\ dParsed.ok) =>
        \A k \in 1..Len(dParsed.messages) :
            IF StoredPlain(k)
            THEN dParsed.messages[k].content = BufferText(TurnEnd(k))
            ELSE StartsWith(dParsed.messages[k].content,
                            UserQueryPrefix \o BufferText(TurnEnd(k)))

\* a Callouts question with a twice-quoted line and a line that is only ">"
\* was parsed: one prefix is gone from the first, the second is unchanged
C22_Witness ==
    /\ dOp = "parse"
    /\ dDoc = JoinLines(<<CALLOUT_USER_PREFIX, <<">", SP, ">", SP, "a">>, <<">">> >>)
    /\ dParsed.ok
    /\ dParsed.messages[1].content =
           UserQueryPrefix \o <<">", SP, "a", NL, ">">>

\* the k-th turn's buffered lines were opened by a Callouts marker and are
\* flushed by a branch that removes quote prefixes (a Callouts marker, or the
\* end of the text)
Unquotes(k) ==
    /\ IsCalloutMarker(DocLines[NthMarker(k)])
    /\ (k < Cardinality(MarkerIndexes) => IsCalloutMarker(DocLines[NthMarker(k + 1)]))

\* the trimmed text of the k-th turn as the branch that closes it reads it
TurnText(k) ==
    CalloutBuffer(SubSeq(DocLines, NthMarker(k) + 1, TurnEnd(k) - 1), Unquotes(k))

\* the k-th turn's text after reference expansion, with the references
\* processed when the turn is closed
TurnExpansion(k) ==
    parseUserPrompt(TurnText(k), LoopState(TurnEnd(k) - 1).processed).prompt

\* C36: in a non-null result of parseChat a turn holds the reference
\* expansion of its text ("User query: " + text + context sections) exactly
\* when it is a User turn or the last turn; every Assistant turn that is not
\* the last holds its plain trimmed text.
C36_ExpandedIffUserOrLast ==
    (dOp = "parse" /\ dParsed.ok) =>
        \A k \in 1..Len(dParsed.messages) :
            LET through == dParsed.messages[k].role = "user"
                               \/ k = Len(dParsed.messages)
            IN  /\ (dParsed.messages[k].content = TurnExpansion(k)) <=> through
                /\ ~through => dParsed.messages[k].content = TurnText(k)

\* three turns were parsed: the question holds its references' context, the
\* answer in the middle is stored as its plain text
C36_Witness ==
    /\ dOp = "parse"
    /\ dParsed.ok
    /\ Len(dParsed.messages) = 3
    /\ dParsed.messages[2] = Message("assistant", RefLine)
    /\ StartsWith(dParsed.messages[3].content, UserQueryPrefix)

\* the first marker line of the document
FirstMarker == CHOOSE i \in MarkerIndexes : \A k \in MarkerIndexes : i <= k

\* the document from its first marker line on
FromFirstMarker == JoinLines(SubSeq(DocLines, FirstMarker, Len(DocLines)))

\* C37: the text before the first marker line is in no turn and its
\* references are not resolved: when the first marker is met nothing is
\* stored and nothing processed, and the result is that of the document
\* without that text; a document without any marker parses to the empty
\* list of turns, not to null.
C37_PreambleDropped ==
    dOp = "parse" =>
        IF MarkerIndexes = {}
        THEN dParsed = [ok |-> TRUE, messages |-> <<>>]
        ELSE /\ LoopState(FirstMarker).messages = <<>>
             /\ LoopState(FirstMarker).content = <<>>
             /\ LoopState(FirstMarker).processed = {}
             /\ dParsed = parseChat(FromFirstMarker)

\* a document whose first line, before the first marker, refers to the note
\* was parsed: the question after the marker still gets the note's context
C37_Witness ==
    /\ dOp = "parse"
    /\ dDoc = JoinLines(<<RefLine, HEADER_USER_PREFIX, RefLine>>)
    /\ dParsed.ok
    /\ Len(dParsed.messages) = 1
    /\ SectionCount(dParsed.messages, NoteName) = 1

---------------------------------------------------------------------------
(* Two invocations of parseChat on the same text, each running until its   *)
(* next await: `await parseUserPrompt(...)` in parseChat and               *)
(* `await resolveWikilink(...)` in parseUserPrompt.                        *)
(*   at  "new"      not called yet                                         *)
(*       "resolve"  suspended in parseUserPrompt's loop; links are the     *)
(*                  wikilinks not yet looked at, prompt is userPrompt      *)
(*       "return"   parseUserPrompt returned prompt, parseChat's await of  *)
(*                  it is pending                                          *)
(*       "done"     returned result                                        *)
(* st holds parseChat's locals, next the index of the line the loop is at  *)
(* (Len(lines) + 1: after the loop).                                       *)

MaxParLines == 3

Invocations == 1..2

Invocation(st, next, at, links, prompt, result) ==
    [st |-> st, next |-> next, at |-> at, links |-> links, prompt |-> prompt,
     result |-> result]

NewInvocation == Invocation(ParseStart, 1, "new", <<>>, <<>>, NoParse)

ParDocuments == { JoinLines(lines) : lines \in SeqsUpTo(RefLinePool, MaxParLines) }

\* a plausible bug: processedWikilinks is a module-level Set
ProcessedOf_shared(invs, i) == UNION { invs[k].st.processed : k \in DOMAIN invs }

\* the Set an invocation passes to parseUserPrompt: its own local
ProcessedOf(invs, i) == invs[i].st.processed

\* "Validate the chat format" and return
Finish(inv) ==
    [inv EXCEPT !.at = "done",
                !.result = IF RolesAlternate(inv.st.messages)
                           THEN [ok |-> TRUE, messages |-> inv.st.messages]
                           ELSE [ok |-> FALSE, messages |-> <<>>]]

\* the call of parseUserPrompt on the buffer: userPrompt and the wikilinks
EnterPrompt(inv, userQuery) ==
    [inv EXCEPT !.at = IF extractWikilinks(userQuery) = <<>> THEN "return"
                       ELSE "resolve",
                !.links = extractWikilinks(userQuery),
                !.prompt = UserQueryPrefix \o userQuery]

\* parseChat from the line it is at up to its next await or its return
RECURSIVE RunToAwait(_, _)
RunToAwait(inv, lines) ==
    IF inv.next > Len(lines)
    THEN IF inv.st.current = "none" THEN Finish(inv)
         ELSE EnterPrompt(inv, CalloutBuffer(inv.st.content, inv.st.inCallout))
    ELSE IF StartsWith(lines[inv.next], HEADER_USER_PREFIX)
    THEN RunToAwait([inv EXCEPT !.st = ParseLine(inv.st, lines[inv.next]),
                                !.next = inv.next + 1], lines)
    ELSE IF StartsWith(lines[inv.next], HEADER_AI_PREFIX) /\ inv.st.current # "none"
    THEN EnterPrompt(inv, Trim(JoinLines(inv.st.content)))
    ELSE IF StartsWith(lines[inv.next], HEADER_AI_PREFIX)
    THEN RunToAwait([inv EXCEPT !.st = ParseLine(inv.st, lines[inv.next]),
                                !.next = inv.next + 1], lines)
    ELSE IF StartsWith(lines[inv.next], CALLOUT_USER_PREFIX)
    THEN RunToAwait([inv EXCEPT !.st = ParseLine(inv.st, lines[inv.next]),
                                !.next = inv.next + 1], lines)
    ELSE IF StartsWith(lines[inv.next], CALLOUT_AI_PREFIX) /\ inv.st.current # "none"
    THEN EnterPrompt(inv, CalloutBuffer(inv.st.content, inv.st.inCallout))
    ELSE RunToAwait([inv EXCEPT !.st = ParseLine(inv.st, lines[inv.next]),
                                !.next = inv.next + 1], lines)

\* one iteration of parseUserPrompt's loop, on the wikilink it is at
ResolveOne(inv, processedWikilinks) ==
    LET p == PromptLoop(<<Head(inv.links)>>, inv.prompt, processedWikilinks)
    IN  [inv EXCEPT !.st = [inv.st EXCEPT !.processed = p.processed],
                    !.prompt = p.prompt,
                    !.links = Tail(inv.links),
                    !.at = IF Tail(inv.links) = <<>> THEN "return" ELSE "resolve"]

\* parseChat after `await parseUserPrompt`: the message is pushed, and the
\* new message started unless this was the final flush
AfterPrompt(inv, lines) ==
    LET pushed == Append(inv.st.messages, Message(inv.st.current, inv.prompt))
    IN  IF inv.next > Len(lines)
        THEN [inv EXCEPT !.st = [inv.st EXCEPT !.messages = pushed]]
        ELSE [inv EXCEPT
                !.st = ParseState(pushed, "assistant", <<>>,
                                  StartsWith(lines[inv.next], CALLOUT_AI_PREFIX),
                                  inv.st.processed),
                !.next = inv.next + 1]

Call ==
    \E i \in Invocations :
        /\ pInv[i].at = "new"
        /\ pInv' = [pInv EXCEPT ![i] = RunToAwait(pInv[i], SplitLines(pText))]
        /\ UNCHANGED pText
        /\ UNCHANGED <<tVars, sVars, dVars, rVars, cVars, hVars, fVars, eVars, kVars, nVars>>

ResolveReturns ==
    \E i \in Invocations :
        /\ pInv[i].at = "resolve"
        /\ pInv' = [pInv EXCEPT ![i] = ResolveOne(pInv[i], ProcessedOf(pInv, i))]
        /\ UNCHANGED pText
        /\ UNCHANGED <<tVars, sVars, dVars, rVars, cVars, hVars, fVars, eVars, kVars, nVars>>

PromptReturns ==
    \E i \in Invocations :
        /\ pInv[i].at = "return"
        /\ pInv' = [pInv EXCEPT ![i] =
                        IF pInv[i].next > Len(SplitLines(pText))
                        THEN Finish(AfterPrompt(pInv[i], SplitLines(pText)))
                        ELSE RunToAwait(AfterPrompt(pInv[i], SplitLines(pText)),
                                        SplitLines(pText))]
        /\ UNCHANGED pText
        /\ UNCHANGED <<tVars, sVars, dVars, rVars, cVars, hVars, fVars, eVars, kVars, nVars>>

ParallelNext ==
    \/ Call
    \/ ResolveReturns
    \/ PromptReturns

\* C23: whatever the interleaving, an invocation returns what parseChat
\* returns for the text, so two invocations on the same text return
\* identical lists and a reference expanded in one is expanded in the other.
C23_InvocationsIndependent ==
    \A i \in Invocations :
        pInv[i].at = "done" =>
            /\ pInv[i].result = parseChat(pText)
            /\ \A k \in Invocations :
                   pInv[k].at = "done" => pInv[k].result = pInv[i].result

\* the section of the note is in the list the invocation returned
HoldsNoteSection(inv) ==
    inv.at = "done" /\ inv.result.ok /\ SectionCount(inv.result.messages, NoteName) = 1

\* both invocations returned a list holding the note's section
C23_Witness ==
    /\ HoldsNoteSection(pInv[1])
    /\ HoldsNoteSection(pInv[2])
    /\ Len(pInv[1].result.messages) = 2

---------------------------------------------------------------------------
(* detectChatFormat as a function of the marker kinds of the lines.        *)

HeaderMarkers == {HEADER_USER_PREFIX, HEADER_AI_PREFIX}

CalloutMarkers == {CALLOUT_USER_PREFIX, CALLOUT_AI_PREFIX}

\* some line of the lines starts with one of the markers
KindOccurs(lines, markers) ==
    \E i \in 1..Len(lines) : \E m \in markers : StartsWith(lines[i], m)

FormatOfKinds(lines) ==
    IF KindOccurs(lines, HeaderMarkers) /\ KindOccurs(lines, CalloutMarkers)
    THEN "mixed"
    ELSE IF KindOccurs(lines, HeaderMarkers) THEN "headers"
    ELSE IF KindOccurs(lines, CalloutMarkers) THEN "callouts"
    ELSE "empty"

Reversed(lines) == [i \in 1..Len(lines) |-> lines[Len(lines) + 1 - i]]

StartsWithMarker(line) ==
    \E m \in HeaderMarkers \cup CalloutMarkers : StartsWith(line, m)

\* C25: the detected format is decided by which marker kinds start a line:
\* empty for none, headers for Headers markers only, callouts for Callouts
\* markers only; it is the same for the lines in reverse order, for the
\* marker lines alone, and with a plain line added in front or at the end.
C25_KindsDecide ==
    dOp = "detect" =>
        /\ dDetected = FormatOfKinds(DocLines)
        /\ detectChatFormat(JoinLines(Reversed(DocLines))) = dDetected
        /\ detectChatFormat(JoinLines(SelectSeq(DocLines, StartsWithMarker))) = dDetected
        /\ detectChatFormat(<<"x", NL>> \o dDoc) = dDetected
        /\ detectChatFormat(dDoc \o <<NL, ">", SP, "x">>) = dDetected

\* a document whose only marker is the Callouts assistant marker, after a
\* quoted line, was detected as callouts
C25_Witness ==
    /\ dOp = "detect"
    /\ dDoc = JoinLines(<< <<">", SP, "a">>, CALLOUT_AI_PREFIX, <<>> >>)
    /\ dDetected = "callouts"

---------------------------------------------------------------------------
(* extractChatRequestSettings and writeChatSettingsToFrontmatter.          *)
(* A front-matter value is [t, s, n, nan]: t is "absent" (no such key),    *)
(* "string" (s its text), "number" (n its value, nan for NaN) or "other"   *)
(* (a boolean, null, a list).                                              *)

FmValue(t, s, n, nan) == [t |-> t, s |-> s, n |-> n, nan |-> nan]

Absent == FmValue("absent", <<>>, 0, FALSE)
Str(s) == FmValue("string", s, 0, FALSE)
Num(n) == FmValue("number", <<>>, n, FALSE)
NaN == FmValue("number", <<>>, 0, TRUE)
Other == FmValue("other", <<>>, 0, FALSE)

FRONTMATTER_KEYS == {"model", "max_tokens", "temperature", "system_prompt"}

EmptyFrontmatter == [k \in FRONTMATTER_KEYS |-> Absent]

Settings(model, maxTokens, temperature, systemPrompt) ==
    [model |-> model, maxTokens |-> maxTokens, temperature |-> temperature,
     systemPrompt |-> systemPrompt]

NoSettings == Settings(Absent, Absent, Absent, Absent)

AnthropicModel == <<"c", "l">>
OpenaiModel == <<"g", "p", "t">>
FallbackModel == <<"claude-sonnet-4-5">>

\* CAOSettings: the provider, the two models, maxTokens, temperature and
\* systemPrompt
PluginDefaults(provider, maxTokens, systemPrompt) ==
    [provider |-> provider, anthropicModel |-> AnthropicModel,
     openaiModel |-> OpenaiModel, maxTokens |-> maxTokens, temperature |-> 1,
     systemPrompt |-> systemPrompt]

\* the settings before the front matter is looked at
DefaultRequestSettings(defaultSettings) ==
    Settings(Str(IF defaultSettings.provider = "anthropic"
                 THEN defaultSettings.anthropicModel
                 ELSE IF defaultSettings.provider = "openai-compatible"
                 THEN defaultSettings.openaiModel
                 ELSE FallbackModel),
             Num(defaultSettings.maxTokens),
             Num(defaultSettings.temperature),
             Str(defaultSettings.systemPrompt))

ModelOk(v) == v.t = "string" /\ Trim(v.s) # <<>>

\* a plausible bug: zero is accepted
MaxTokensOk_zero(v) == v.t = "number" /\ ~v.nan /\ v.n >= 0

MaxTokensOk(v) == v.t = "number" /\ ~v.nan /\ v.n > 0

TemperatureOk(v) == v.t = "number" /\ ~v.nan

SystemPromptOk(v) == v.t = "string"

\* the callback given to processFrontMatter, on a file
OverrideWith(settings, frontmatter) ==
    Settings(IF ModelOk(frontmatter["model"])
             THEN frontmatter["model"] ELSE settings.model,
             IF MaxTokensOk(frontmatter["max_tokens"])
             THEN frontmatter["max_tokens"] ELSE settings.maxTokens,
             IF TemperatureOk(frontmatter["temperature"])
             THEN frontmatter["temperature"] ELSE settings.temperature,
             IF SystemPromptOk(frontmatter["system_prompt"])
             THEN frontmatter["system_prompt"] ELSE settings.systemPrompt)

\* currentFile is the note (hasFile) or null
extractChatRequestSettings(hasFile, frontmatter, defaultSettings) ==
    IF hasFile
    THEN OverrideWith(DefaultRequestSettings(defaultSettings), frontmatter)
    ELSE DefaultRequestSettings(defaultSettings)

\* the front matter after writeChatSettingsToFrontmatter
writeChatSettingsToFrontmatter(frontmatter, defaultSettings) ==
    LET settings == extractChatRequestSettings(FALSE, frontmatter, defaultSettings)
    IN  [frontmatter EXCEPT !["model"] = settings.model,
                            !["max_tokens"] = settings.maxTokens,
                            !["temperature"] = settings.temperature,
                            !["system_prompt"] = settings.systemPrompt]

\* what the keys of a note may hold
FrontmatterValues(k) ==
    IF k = "model" THEN {Absent, Str(<<>>), Str(<<SP>>), Str(<<"m">>), Num(1)}
    ELSE IF k = "max_tokens"
    THEN {Absent, Num(0), Num(0 - 1), Num(2), NaN, Str(<<"2">>)}
    ELSE IF k = "temperature" THEN {Absent, Num(0), Num(0 - 1), NaN, Other}
    ELSE {Absent, Str(<<>>), Str(<<"p">>), Num(1)}

Frontmatters == { f \in [FRONTMATTER_KEYS -> UNION { FrontmatterValues(k) : k \in FRONTMATTER_KEYS }] :
                    \A k \in FRONTMATTER_KEYS : f[k] \in FrontmatterValues(k) }

ExtractSettings ==
    /\ fOp \in {"none", "write"}
    /\ fOp' = IF fOp = "none" THEN "extract" ELSE "readback"
    /\ fSettings' = extractChatRequestSettings(TRUE, fFrontmatter, fDefaults)
    /\ UNCHANGED <<fDefaults, fFrontmatter>>
    /\ UNCHANGED <<tVars, sVars, dVars, rVars, cVars, hVars, pVars, eVars, kVars, nVars>>

WriteSettings ==
    /\ fOp = "none"
    /\ fOp' = "write"
    /\ fFrontmatter' = writeChatSettingsToFrontmatter(fFrontmatter, fDefaults)
    /\ UNCHANGED <<fDefaults, fSettings>>
    /\ UNCHANGED <<tVars, sVars, dVars, rVars, cVars, hVars, pVars, eVars, kVars, nVars>>

SettingsNext ==
    \/ ExtractSettings
    \/ WriteSettings

\* the plugin default of each setting
DefaultModel ==
    IF fDefaults.provider = "anthropic" THEN fDefaults.anthropicModel
    ELSE IF fDefaults.provider = "openai-compatible" THEN fDefaults.openaiModel
    ELSE FallbackModel

IsBlank(s) == \A i \in 1..Len(s) : IsWhitespace(s[i])

\* C27: each setting is the front-matter value when the key is present and
\* well-typed (model: a string that is not blank; max_tokens: a number above
\* zero; temperature: a number; system_prompt: a string) and the plugin
\* default otherwise; read back right after the defaults were written to
\* the front matter, the settings are the plugin defaults.
C27_FrontmatterOrDefault ==
    /\ fOp \in {"extract", "readback"} =>
        LET fm == fFrontmatter
        IN  /\ fSettings.model =
                   (IF fm["model"].t = "string" /\ ~IsBlank(fm["model"].s)
                    THEN fm["model"] ELSE Str(DefaultModel))
            /\ fSettings.maxTokens =
                   (IF fm["max_tokens"].t = "number" /\ ~fm["max_tokens"].nan
                       /\ fm["max_tokens"].n >= 1
                    THEN fm["max_tokens"] ELSE Num(fDefaults.maxTokens))
            /\ fSettings.temperature =
                   (IF fm["temperature"].t = "number" /\ ~fm["temperature"].nan
                    THEN fm["temperature"] ELSE Num(fDefaults.temperature))
            /\ fSettings.systemPrompt =
                   (IF fm["system_prompt"].t = "string"
                    THEN fm["system_prompt"] ELSE Str(fDefaults.systemPrompt))
    /\ fOp = "readback" =>
        fSettings = Settings(Str(DefaultModel), Num(fDefaults.maxTokens),
                             Num(fDefaults.temperature), Str(fDefaults.systemPrompt))

\* the settings were read back after a write over a front matter whose four
\* values were all unusable
C27_Witness ==
    /\ fOp = "readback"
    /\ fDefaults.provider = "openai-compatible"
    /\ fDefaults.maxTokens = 0
    /\ fSettings.model = Str(OpenaiModel)
    /\ fFrontmatter["max_tokens"] = Num(0)

---------------------------------------------------------------------------
(* "Get response" on an open note: handleGetResponse, the streaming        *)
(* handler it starts, and renderText, for up to two runs of the command.   *)

MaxStreamEvents == 2

\* the runs of the command on the note
GetResponses == 1..2

\* one run: where it stands, its handler's two fields, the events it took
Session(phase, isStartOfLine, tokenCount, events) ==
    [phase |-> phase, isStartOfLine |-> isStartOfLine,
     tokenCount |-> tokenCount, events |-> events]

NewSession == Session("idle", TRUE, 0, 0)

\* the result of the validation, given the result of parseChat
Validated(parsed) == [isValid |-> parsed.ok, messages |-> parsed.messages]

\* validateChatBeforeResponse: the format is validated, then the text parsed
validateChatBeforeResponse(text, useCallouts) ==
    IF validateChatFormat(text, useCallouts).isValid
    THEN Validated(parseChat(text))
    ELSE [isValid |-> FALSE, messages |-> <<>>]

\* the notes the command is run on: one or three turns, in either format
EditorDocuments ==
    { JoinLines(<<HEADER_USER_PREFIX, <<"q">>>>),
      JoinLines(<<HEADER_USER_PREFIX, <<"q">>, <<>>, HEADER_AI_PREFIX, <<"a">>,
                  <<>>, HEADER_USER_PREFIX, <<"q">>>>),
      JoinLines(<<CALLOUT_USER_PREFIX, <<">", SP, "q">>>>),
      JoinLines(<<CALLOUT_USER_PREFIX, <<">", SP, "q">>, <<>>, CALLOUT_AI_PREFIX,
                  <<">", SP, "a">>, <<>>, CALLOUT_USER_PREFIX, <<">", SP, "q">>>>) }

\* the unified events a stream hands to a run
SessionEvents ==
    { Content(<<"a">>), Content(<<NL>>), Content(HEADER_USER_PREFIX),
      Content(<<"[!question]+", SP, "Me">>), Usage(12), Error("upstream") }

\* renderText: the text is put at the end of the editor's last line
renderText(doc, text) == doc \o text

\* the owners of the note's characters after session s rendered n more
Owners(owner, n, s) == owner \o [i \in 1..n |-> s]

\* the command is invoked: the note is validated, and a valid note gets the
\* assistant marker and a stream
GetResponse(s) ==
    /\ eSession[s].phase = "idle"
    /\ \A r \in GetResponses : r < s => eSession[r].phase # "idle"
    /\ IF validateChatBeforeResponse(eDoc, eUseCallouts).isValid
       THEN /\ eDoc' = renderText(eDoc, formatNewAISection(eUseCallouts))
            /\ eOwner' = Owners(eOwner, Len(formatNewAISection(eUseCallouts)), s)
            /\ eSession' = [eSession EXCEPT ![s].phase = "streaming"]
       ELSE /\ eSession' = [eSession EXCEPT ![s].phase = "rejected"]
            /\ UNCHANGED <<eDoc, eOwner>>
    /\ UNCHANGED <<eDoc0, eUseCallouts, eShowStats>>
    /\ UNCHANGED <<tVars, sVars, dVars, rVars, cVars, hVars, pVars, fVars, kVars, nVars>>

\* run s is resumed with the next event of its stream
ReceiveEvent(s) ==
    /\ eSession[s].phase = "streaming"
    /\ eSession[s].events < MaxStreamEvents
    /\ \E event \in SessionEvents :
        IF event.type = "content" /\ event.content # <<>>
        THEN LET r == OnContent(<<>>, eSession[s].isStartOfLine, eUseCallouts,
                                event.content)
             IN  /\ eDoc' = renderText(eDoc, r.appended)
                 /\ eOwner' = Owners(eOwner, Len(r.appended), s)
                 /\ eSession' = [eSession EXCEPT
                        ![s].isStartOfLine = r.isStartOfLine,
                        ![s].events = @ + 1]
        ELSE IF event.type = "usage"
        THEN /\ eSession' = [eSession EXCEPT
                    ![s].tokenCount = event.outputTokens,
                    ![s].events = @ + 1]
             /\ UNCHANGED <<eDoc, eOwner>>
        ELSE /\ eSession' = [eSession EXCEPT
                    ![s].phase = "failed", ![s].events = @ + 1]
             /\ UNCHANGED <<eDoc, eOwner>>
    /\ UNCHANGED <<eDoc0, eUseCallouts, eShowStats>>
    /\ UNCHANGED <<tVars, sVars, dVars, rVars, cVars, hVars, pVars, fVars, kVars, nVars>>

\* the stream of run s is exhausted after its "done" event: the statistics
\* and the new user section are rendered
EndOfStream(s) ==
    /\ eSession[s].phase = "streaming"
    /\ LET text == AfterResponse(<<>>, eShowStats, eUseCallouts,
                                 eSession[s].tokenCount)
       IN  /\ eDoc' = renderText(eDoc, text)
           /\ eOwner' = Owners(eOwner, Len(text), s)
    /\ eSession' = [eSession EXCEPT ![s].phase = "completed"]
    /\ UNCHANGED <<eDoc0, eUseCallouts, eShowStats>>
    /\ UNCHANGED <<tVars, sVars, dVars, rVars, cVars, hVars, pVars, fVars, kVars, nVars>>

EditorNext ==
    \/ \E s \in GetResponses : GetResponse(s)
    \/ \E s \in GetResponses : ReceiveEvent(s)
    \/ \E s \in GetResponses : EndOfStream(s)

\* the turns of a parsed note, and whether they end with a user turn
EndsWithUser(parsed) ==
    /\ parsed.ok
    /\ Len(parsed.messages) > 0
    /\ parsed.messages[Len(parsed.messages)].role = "user"

\* the note after a run has n + 2 turns when it had n before
TwoMoreTurns(before, after) ==
    /\ after.ok
    /\ Len(after.messages) = Len(before.messages) + 2

\* C28: a note that parses to n turns ending with a user turn parses, after
\* one completed streaming run of "Get response" on it, to exactly n + 2
\* turns, in the header and in the callout format.
C28_SessionKeepsParseable ==
    ( /\ eSession[1].phase = "completed"
      /\ eSession[2].phase = "idle"
      /\ EndsWithUser(parseChat(eDoc0)) )
        => TwoMoreTurns(parseChat(eDoc0), parseChat(eDoc))

\* C29: when a second run of "Get response" is started on the note while the
\* first is still receiving events, the text each run renders stays in one
\* piece: between two characters of a run there is no character of the other.
C29_SessionsContiguous ==
    \A s \in GetResponses :
        \A i \in DOMAIN eOwner, k \in DOMAIN eOwner :
            (i < k /\ eOwner[i] = s /\ eOwner[k] = s)
                => \A j \in i..k : eOwner[j] = s

---------------------------------------------------------------------------
(* Custom prompt templates: the template editor of the settings tab,       *)
(* saveSettings, updatePromptCommands, and the commands it registers.      *)

MaxPrompts == 2

\* the names and contents typed into the template editor
TemplateNames == {"A", "B"}
TemplateTexts == { <<"x">>, <<"y">> }

PromptTemplate(name, template) == [name |-> name, template |-> template]

PromptTemplates ==
    { PromptTemplate(n, t) : n \in TemplateNames, t \in TemplateTexts }

\* a command of the plugin: whether the id is registered, the template
\* object its editorCallback closes over, and how many addCommand calls
\* have been made for the id since it was last removed
Unregistered == [registered |-> FALSE, template |-> <<>>, added |-> 0]
Registered(template) ==
    [registered |-> TRUE, template |-> template.template, added |-> 1]

\* plugin.addCommand for a template, on the commands as they are
AddCommand(commands, template) ==
    [commands EXCEPT ![template.name] =
        [Registered(template) EXCEPT !.added = commands[template.name].added + 1]]

NoCommands == [n \in TemplateNames |-> Unregistered]
NoInsertion == [name |-> "none", template |-> <<>>]

\* findIndex((t) => t.name === name), 0 for -1 and indices from 1
RECURSIVE FindIndexFrom(_, _, _)
FindIndexFrom(templates, name, i) ==
    IF i > Len(templates) THEN 0
    ELSE IF templates[i].name = name THEN i
    ELSE FindIndexFrom(templates, name, i + 1)

findIndex(templates, name) == FindIndexFrom(templates, name, 1)

\* splice(index, 1)
Splice(templates, index) ==
    [i \in 1..(Len(templates) - 1) |->
        IF i < index THEN templates[i] ELSE templates[i + 1]]

\* a plausible bug: no command is ever removed
KeptCommands_all(templates, promptCommands) == promptCommands

\* "Remove commands that no longer exist": the ids that stay registered
KeptCommands(templates, promptCommands) ==
    { id \in promptCommands : \E i \in 1..Len(templates) : templates[i].name = id }

\* "Add new commands": the templates from the i-th on, in order
RECURSIVE AddNewCommands(_, _, _, _)
AddNewCommands(templates, promptCommands, commands, i) ==
    IF i > Len(templates) THEN commands
    ELSE IF templates[i].name \in promptCommands
    THEN AddNewCommands(templates, promptCommands, commands, i + 1)
    ELSE AddNewCommands(templates, promptCommands \union {templates[i].name},
                        AddCommand(commands, templates[i]), i + 1)

\* registerPromptCommands: addCommand for every template from the i-th on
RECURSIVE registerPromptCommands(_, _, _)
registerPromptCommands(templates, commands, i) ==
    IF i > Len(templates) THEN commands
    ELSE registerPromptCommands(templates, AddCommand(commands, templates[i]), i + 1)

\* the commands after the removals
RemoveCommands(kept, commands) ==
    [n \in TemplateNames |-> IF n \in kept THEN commands[n] ELSE Unregistered]

\* updatePromptCommands: the set promptCommands and the commands afterwards
updatePromptCommands(templates, promptCommands, commands) ==
    [promptCommands |->
        KeptCommands(templates, promptCommands)
            \union { templates[i].name : i \in 1..Len(templates) },
     commands |->
        AddNewCommands(templates, KeptCommands(templates, promptCommands),
            RemoveCommands(KeptCommands(templates, promptCommands), commands), 1)]

\* showTemplateEditor's onSave: the checks that end it with a Notice
SaveRefused(templates, commands, isEditing, index, updatedTemplate) ==
    \/ ~isEditing /\ findIndex(templates, updatedTemplate.name) # 0
    \/ /\ isEditing
       /\ findIndex(templates, updatedTemplate.name) # 0
       /\ findIndex(templates, updatedTemplate.name) # index
    \/ /\ commands[updatedTemplate.name].registered
       /\ (~isEditing \/ templates[index].name # updatedTemplate.name)

\* the template editor's Save, for a new template (index 0) or the one at
\* index: the checks, the update of customPrompts, saveSettings
SaveTemplate ==
    \E index \in 0..Len(kCustomPrompts), updatedTemplate \in PromptTemplates :
        /\ index = 0 => Len(kCustomPrompts) < MaxPrompts
        /\ kOp' = "save"
        /\ IF SaveRefused(kCustomPrompts, kCommands, index # 0, index, updatedTemplate)
           THEN UNCHANGED <<kCustomPrompts, kPromptCommands, kCommands>>
           ELSE /\ kCustomPrompts' =
                     (IF index # 0
                      THEN [kCustomPrompts EXCEPT ![index] = updatedTemplate]
                      ELSE Append(kCustomPrompts, updatedTemplate))
                /\ LET u == updatePromptCommands(kCustomPrompts', kPromptCommands,
                                                 kCommands)
                   IN  /\ kPromptCommands' = u.promptCommands
                       /\ kCommands' = u.commands
        /\ UNCHANGED kInserted
        /\ UNCHANGED <<tVars, sVars, dVars, rVars, cVars, hVars, pVars, fVars, eVars, nVars>>

\* the Delete button of a template: splice, saveSettings
DeleteTemplate ==
    \E index \in 1..Len(kCustomPrompts) :
        /\ kOp' = "delete"
        /\ kCustomPrompts' = Splice(kCustomPrompts, index)
        /\ LET u == updatePromptCommands(kCustomPrompts', kPromptCommands, kCommands)
           IN  /\ kPromptCommands' = u.promptCommands
               /\ kCommands' = u.commands
        /\ UNCHANGED kInserted
        /\ UNCHANGED <<tVars, sVars, dVars, rVars, cVars, hVars, pVars, fVars, eVars, nVars>>

\* another setting is changed: saveSettings
SaveSettings ==
    /\ kOp' = "settings"
    /\ LET u == updatePromptCommands(kCustomPrompts, kPromptCommands, kCommands)
       IN  /\ kPromptCommands' = u.promptCommands
           /\ kCommands' = u.commands
    /\ UNCHANGED <<kCustomPrompts, kInserted>>
    /\ UNCHANGED <<tVars, sVars, dVars, rVars, cVars, hVars, pVars, fVars, eVars, nVars>>

\* the command registered under a name is invoked: its editorCallback hands
\* the template it holds to insertTemplate
InvokeCommand ==
    \E name \in TemplateNames :
        /\ kCommands[name].registered
        /\ kOp' = "invoke"
        /\ kInserted' = [name |-> name, template |-> kCommands[name].template]
        /\ UNCHANGED <<kCustomPrompts, kPromptCommands, kCommands>>
        /\ UNCHANGED <<tVars, sVars, dVars, rVars, cVars, hVars, pVars, fVars, eVars, nVars>>

CommandsNext ==
    \/ SaveTemplate
    \/ DeleteTemplate
    \/ SaveSettings
    \/ InvokeCommand

\* C30: after any sequence of adding, editing, deleting and saving templates,
\* the command registered under a template's name inserts the text the
\* settings hold for that name, also when only the content was edited.
C30_CommandInsertsStoredText ==
    kOp = "invoke" =>
        \A i \in 1..Len(kCustomPrompts) :
            kCustomPrompts[i].name = kInserted.name
                => kInserted.template = kCustomPrompts[i].template

\* the names of the templates in settings.customPrompts
StoredNames == { kCustomPrompts[i].name : i \in 1..Len(kCustomPrompts) }

\* after a saveSettings: the tracked ids and the registered commands are
\* those of the stored names
TrackedAreStored ==
    kOp \in {"save", "delete", "settings"} =>
        /\ kPromptCommands = StoredNames
        /\ \A n \in TemplateNames : kCommands[n].registered <=> n \in StoredNames

\* a saveSettings adds a command once for a name that was not tracked, and
\* adds none for a name that was
AddedOnce ==
    kOp' \in {"save", "delete", "settings"} =>
        \A n \in TemplateNames :
            kCommands'[n].added =
                (IF n \notin StoredNames' THEN 0
                 ELSE IF n \in kPromptCommands THEN kCommands[n].added
                 ELSE 1)

\* C38: after every saveSettings the ids in promptCommands are the names of
\* the templates in settings.customPrompts: the commands of deleted or
\* renamed templates are removed, those of new names added, and no name is
\* registered twice.
C38_CommandsMatchTemplates == []TrackedAreStored /\ [][AddedOnce]_vars

\* one of two templates was deleted: the command of the other one is the
\* only one left
C38_Witness ==
    /\ kOp = "delete"
    /\ Len(kCustomPrompts) = 1
    /\ kPromptCommands = {kCustomPrompts[1].name}
    /\ \E n \in TemplateNames : ~kCommands[n].registered

---------------------------------------------------------------------------
(* NonStreamingResponseHandler: process and processResponse on the         *)
(* ChatResponse of chatService.sendMessage(request).                       *)

MaxBlocks == 2

\* a ChatResponse: kind "null" for no response, "noContent" for a response
\* without a content list, "list" for one with a list of blocks
ChatResponse(kind, content, outputTokens) ==
    [kind |-> kind, content |-> content, outputTokens |-> outputTokens]

NoResponse == ChatResponse("none", <<>>, 0)

\* a ContentBlock
Block(type, content) == [type |-> type, content |-> content]

ContentBlocks ==
    { Block("text", <<"a">>), Block("text", <<"a", NL, NL, "b">>),
      Block("image", <<"i">>) }

\* what sendMessage resolves to
ChatResponses ==
    { ChatResponse("null", <<>>, 0), ChatResponse("noContent", <<>>, 12) }
        \union { ChatResponse("list", blocks, n) :
                    blocks \in UNION { [1..k -> ContentBlocks] : k \in 0..MaxBlocks },
                    n \in {0, 12} }

\* processResponse's check: "No response received"
NothingReceived(response) ==
    \/ response.kind = "null"
    \/ response.kind = "noContent"
    \/ Len(response.content) = 0

\* the text blocks' contents, joined
RECURSIVE RawContent(_)
RawContent(blocks) ==
    IF blocks = <<>> THEN <<>>
    ELSE (IF Head(blocks).type = "text" THEN Head(blocks).content ELSE <<>>)
             \o RawContent(Tail(blocks))

\* processResponse's generatedText for a response that was received
GeneratedText(useCallouts, rawContent) ==
    formatNewAISection(useCallouts)
        \o (IF useCallouts THEN processCalloutContent(rawContent) ELSE rawContent)

\* process is called: sendMessage is awaited
CallProcess ==
    /\ nPhase = "idle"
    /\ nPhase' = "awaiting"
    /\ UNCHANGED <<nDoc0, nDoc, nUseCallouts, nShowStats, nTokenCount, nResponse>>
    /\ UNCHANGED <<tVars, sVars, dVars, rVars, cVars, hVars, pVars, fVars, eVars, kVars>>

\* sendMessage resolves: the rest of processResponse, then the statistics
\* and the new user section of process
ResponseArrives ==
    /\ nPhase = "awaiting"
    /\ \E response \in ChatResponses :
        /\ nResponse' = response
        /\ nTokenCount' =
               (IF NothingReceived(response) THEN nTokenCount
                ELSE response.outputTokens)
        /\ nDoc' = AfterResponse(
               (IF NothingReceived(response) THEN nDoc
                ELSE renderText(nDoc,
                         GeneratedText(nUseCallouts, RawContent(response.content)))),
               nShowStats, nUseCallouts, nTokenCount')
    /\ nPhase' = "completed"
    /\ UNCHANGED <<nDoc0, nUseCallouts, nShowStats>>
    /\ UNCHANGED <<tVars, sVars, dVars, rVars, cVars, hVars, pVars, fVars, eVars, kVars>>

\* sendMessage rejects: process's catch shows a Notice
SendFails ==
    /\ nPhase = "awaiting"
    /\ nPhase' = "failed"
    /\ UNCHANGED <<nDoc0, nDoc, nUseCallouts, nShowStats, nTokenCount, nResponse>>
    /\ UNCHANGED <<tVars, sVars, dVars, rVars, cVars, hVars, pVars, fVars, eVars, kVars>>

NonStreamingNext ==
    \/ CallProcess
    \/ ResponseArrives
    \/ SendFails

\* C31: when sendMessage gives no response or an empty content list, process
\* leaves the note as it was: no assistant section, no statistics line and no
\* new user section.
C31_NothingReceivedNothingAppended ==
    (nPhase = "completed" /\ NothingReceived(nResponse)) => nDoc = nDoc0

\* C35: the parser's quote stripping inverts the callout formatting of a
\* response: one leading "> " taken from each line of the formatted response
\* gives back the response's lines, blank lines included.
C35_StripInvertsFormat ==
    (nPhase = "completed" /\ nUseCallouts /\ ~NothingReceived(nResponse)) =>
        StripQuote(SplitLines(processCalloutContent(RawContent(nResponse.content))))
            = SplitLines(RawContent(nResponse.content))

---------------------------------------------------------------------------
(* Specifications. *)

TransducerInit ==
    /\ tText \in SeqsUpTo(TAlphabet, MaxText)
    /\ tInit \in BOOLEAN
    /\ tPos = 0
    /\ tOut = <<>>
    /\ tState = tInit
    /\ tCuts = {}
    /\ sProvider = "anthropic"
    /\ sGen = "start"
    /\ sSource = "unopened"
    /\ sRaw = <<>>
    /\ sEnding = "none"
    /\ sEvents = <<>>
    /\ sConsumer = "start"
    /\ dDoc = <<>>
    /\ dOp = "none"
    /\ dUseCallouts = FALSE
    /\ dDetected = "none"
    /\ dValidation = NoValidation
    /\ dParsed = NoParse
    /\ dSerialized = <<>>
    /\ dReparsed = NoParse
    /\ rNote = DefaultNote
    /\ rLink = <<>>
    /\ rResolved = NoResolution
    /\ rText = <<>>
    /\ rProcessed = {}
    /\ rExpanded = NoExpansion
    /\ rOp = "none"
    /\ cTemplate = <<>>
    /\ cLines0 = << <<>> >>
    /\ cInsertPos = Position(0, 0)
    /\ cLines = << <<>> >>
    /\ cCursor = Position(0, 0)
    /\ cOp = "none"
    /\ hUseCallouts = FALSE
    /\ hShowStats = FALSE
    /\ hTokenCount = 0
    /\ hIsStartOfLine = TRUE
    /\ hPhase = "idle"
    /\ hSession = 0
    /\ hStart = FieldsAt(TRUE, 0)
    /\ hRequests = 0
    /\ hIterator = "none"
    /\ hConsumed = <<>>
    /\ hAppended = <<>>
    /\ pText = <<>>
    /\ pInv = [i \in Invocations |-> NewInvocation]
    /\ fDefaults = PluginDefaults("anthropic", 1, <<>>)
    /\ fFrontmatter = EmptyFrontmatter
    /\ fSettings = NoSettings
    /\ fOp = "none"
    /\ eDoc0 = <<>>
    /\ eDoc = <<>>
    /\ eOwner = <<>>
    /\ eUseCallouts = FALSE
    /\ eShowStats = FALSE
    /\ eSession = [s \in GetResponses |-> NewSession]
    /\ kCustomPrompts = <<>>
    /\ kPromptCommands = {}
    /\ kCommands = NoCommands
    /\ kInserted = NoInsertion
    /\ kOp = "none"
    /\ nDoc0 = <<>>
    /\ nDoc = <<>>
    /\ nUseCallouts = FALSE
    /\ nShowStats = FALSE
    /\ nTokenCount = 0
    /\ nResponse = NoResponse
    /\ nPhase = "idle"

TransducerSpec == TransducerInit /\ [][TNext]_vars

StreamInit ==
    /\ sProvider \in {"anthropic", "openai"}
    /\ sGen = "start"
    /\ sSource = "unopened"
    /\ sRaw = <<>>
    /\ sEnding = "none"
    /\ sEvents = <<>>
    /\ sConsumer = "start"
    /\ tText = <<>>
    /\ tInit = TRUE
    /\ tPos = 0
    /\ tOut = <<>>
    /\ tState = TRUE
    /\ tCuts = {}
    /\ dDoc = <<>>
    /\ dOp = "none"
    /\ dUseCallouts = FALSE
    /\ dDetected = "none"
    /\ dValidation = NoValidation
    /\ dParsed = NoParse
    /\ dSerialized = <<>>
    /\ dReparsed = NoParse
    /\ rNote = DefaultNote
    /\ rLink = <<>>
    /\ rResolved = NoResolution
    /\ rText = <<>>
    /\ rProcessed = {}
    /\ rExpanded = NoExpansion
    /\ rOp = "none"
    /\ cTemplate = <<>>
    /\ cLines0 = << <<>> >>
    /\ cInsertPos = Position(0, 0)
    /\ cLines = << <<>> >>
    /\ cCursor = Position(0, 0)
    /\ cOp = "none"
    /\ hUseCallouts = FALSE
    /\ hShowStats = FALSE
    /\ hTokenCount = 0
    /\ hIsStartOfLine = TRUE
    /\ hPhase = "idle"
    /\ hSession = 0
    /\ hStart = FieldsAt(TRUE, 0)
    /\ hRequests = 0
    /\ hIterator = "none"
    /\ hConsumed = <<>>
    /\ hAppended = <<>>
    /\ pText = <<>>
    /\ pInv = [i \in Invocations |-> NewInvocation]
    /\ fDefaults = PluginDefaults("anthropic", 1, <<>>)
    /\ fFrontmatter = EmptyFrontmatter
    /\ fSettings = NoSettings
    /\ fOp = "none"
    /\ eDoc0 = <<>>
    /\ eDoc = <<>>
    /\ eOwner = <<>>
    /\ eUseCallouts = FALSE
    /\ eShowStats = FALSE
    /\ eSession = [s \in GetResponses |-> NewSession]
    /\ kCustomPrompts = <<>>
    /\ kPromptCommands = {}
    /\ kCommands = NoCommands
    /\ kInserted = NoInsertion
    /\ kOp = "none"
    /\ nDoc0 = <<>>
    /\ nDoc = <<>>
    /\ nUseCallouts = FALSE
    /\ nShowStats = FALSE
    /\ nTokenCount = 0
    /\ nResponse = NoResponse
    /\ nPhase = "idle"

StreamSpec == StreamInit /\ [][SNext]_vars

DocumentInit ==
    /\ dDoc \in Documents
    /\ dOp = "none"
    /\ dUseCallouts = FALSE
    /\ dDetected = "none"
    /\ dValidation = NoValidation
    /\ dParsed = NoParse
    /\ dSerialized = <<>>
    /\ dReparsed = NoParse
    /\ tText = <<>>
    /\ tInit = TRUE
    /\ tPos = 0
    /\ tOut = <<>>
    /\ tState = TRUE
    /\ tCuts = {}
    /\ sProvider = "anthropic"
    /\ sGen = "start"
    /\ sSource = "unopened"
    /\ sRaw = <<>>
    /\ sEnding = "none"
    /\ sEvents = <<>>
    /\ sConsumer = "start"
    /\ rNote = DefaultNote
    /\ rLink = <<>>
    /\ rResolved = NoResolution
    /\ rText = <<>>
    /\ rProcessed = {}
    /\ rExpanded = NoExpansion
    /\ rOp = "none"
    /\ cTemplate = <<>>
    /\ cLines0 = << <<>> >>
    /\ cInsertPos = Position(0, 0)
    /\ cLines = << <<>> >>
    /\ cCursor = Position(0, 0)
    /\ cOp = "none"
    /\ hUseCallouts = FALSE
    /\ hShowStats = FALSE
    /\ hTokenCount = 0
    /\ hIsStartOfLine = TRUE
    /\ hPhase = "idle"
    /\ hSession = 0
    /\ hStart = FieldsAt(TRUE, 0)
    /\ hRequests = 0
    /\ hIterator = "none"
    /\ hConsumed = <<>>
    /\ hAppended = <<>>
    /\ pText = <<>>
    /\ pInv = [i \in Invocations |-> NewInvocation]
    /\ fDefaults = PluginDefaults("anthropic", 1, <<>>)
    /\ fFrontmatter = EmptyFrontmatter
    /\ fSettings = NoSettings
    /\ fOp = "none"
    /\ eDoc0 = <<>>
    /\ eDoc = <<>>
    /\ eOwner = <<>>
    /\ eUseCallouts = FALSE
    /\ eShowStats = FALSE
    /\ eSession = [s \in GetResponses |-> NewSession]
    /\ kCustomPrompts = <<>>
    /\ kPromptCommands = {}
    /\ kCommands = NoCommands
    /\ kInserted = NoInsertion
    /\ kOp = "none"
    /\ nDoc0 = <<>>
    /\ nDoc = <<>>
    /\ nUseCallouts = FALSE
    /\ nShowStats = FALSE
    /\ nTokenCount = 0
    /\ nResponse = NoResponse
    /\ nPhase = "idle"

DocumentSpec == DocumentInit /\ [][DNext]_vars

ReferenceInit ==
    /\ dDoc \in RefDocuments
    /\ dOp = "none"
    /\ dUseCallouts = FALSE
    /\ dDetected = "none"
    /\ dValidation = NoValidation
    /\ dParsed = NoParse
    /\ dSerialized = <<>>
    /\ dReparsed = NoParse
    /\ tText = <<>>
    /\ tInit = TRUE
    /\ tPos = 0
    /\ tOut = <<>>
    /\ tState = TRUE
    /\ tCuts = {}
    /\ sProvider = "anthropic"
    /\ sGen = "start"
    /\ sSource = "unopened"
    /\ sRaw = <<>>
    /\ sEnding = "none"
    /\ sEvents = <<>>
    /\ sConsumer = "start"
    /\ rNote = DefaultNote
    /\ rLink = <<>>
    /\ rResolved = NoResolution
    /\ rText = <<>>
    /\ rProcessed = {}
    /\ rExpanded = NoExpansion
    /\ rOp = "none"
    /\ cTemplate = <<>>
    /\ cLines0 = << <<>> >>
    /\ cInsertPos = Position(0, 0)
    /\ cLines = << <<>> >>
    /\ cCursor = Position(0, 0)
    /\ cOp = "none"
    /\ hUseCallouts = FALSE
    /\ hShowStats = FALSE
    /\ hTokenCount = 0
    /\ hIsStartOfLine = TRUE
    /\ hPhase = "idle"
    /\ hSession = 0
    /\ hStart = FieldsAt(TRUE, 0)
    /\ hRequests = 0
    /\ hIterator = "none"
    /\ hConsumed = <<>>
    /\ hAppended = <<>>
    /\ pText = <<>>
    /\ pInv = [i \in Invocations |-> NewInvocation]
    /\ fDefaults = PluginDefaults("anthropic", 1, <<>>)
    /\ fFrontmatter = EmptyFrontmatter
    /\ fSettings = NoSettings
    /\ fOp = "none"
    /\ eDoc0 = <<>>
    /\ eDoc = <<>>
    /\ eOwner = <<>>
    /\ eUseCallouts = FALSE
    /\ eShowStats = FALSE
    /\ eSession = [s \in GetResponses |-> NewSession]
    /\ kCustomPrompts = <<>>
    /\ kPromptCommands = {}
    /\ kCommands = NoCommands
    /\ kInserted = NoInsertion
    /\ kOp = "none"
    /\ nDoc0 = <<>>
    /\ nDoc = <<>>
    /\ nUseCallouts = FALSE
    /\ nShowStats = FALSE
    /\ nTokenCount = 0
    /\ nResponse = NoResponse
    /\ nPhase = "idle"

RNext == Parse

ReferenceSpec == ReferenceInit /\ [][RNext]_vars

ResolverInit ==
    /\ rNote \in Notes
    /\ rLink \in Links
    /\ rResolved = NoResolution
    /\ rText = <<>>
    /\ rProcessed = {}
    /\ rExpanded = NoExpansion
    /\ rOp = "none"
    /\ tText = <<>>
    /\ tInit = TRUE
    /\ tPos = 0
    /\ tOut = <<>>
    /\ tState = TRUE
    /\ tCuts = {}
    /\ sProvider = "anthropic"
    /\ sGen = "start"
    /\ sSource = "unopened"
    /\ sRaw = <<>>
    /\ sEnding = "none"
    /\ sEvents = <<>>
    /\ sConsumer = "start"
    /\ dDoc = <<>>
    /\ dOp = "none"
    /\ dUseCallouts = FALSE
    /\ dDetected = "none"
    /\ dValidation = NoValidation
    /\ dParsed = NoParse
    /\ dSerialized = <<>>
    /\ dReparsed = NoParse
    /\ cTemplate = <<>>
    /\ cLines0 = << <<>> >>
    /\ cInsertPos = Position(0, 0)
    /\ cLines = << <<>> >>
    /\ cCursor = Position(0, 0)
    /\ cOp = "none"
    /\ hUseCallouts = FALSE
    /\ hShowStats = FALSE
    /\ hTokenCount = 0
    /\ hIsStartOfLine = TRUE
    /\ hPhase = "idle"
    /\ hSession = 0
    /\ hStart = FieldsAt(TRUE, 0)
    /\ hRequests = 0
    /\ hIterator = "none"
    /\ hConsumed = <<>>
    /\ hAppended = <<>>
    /\ pText = <<>>
    /\ pInv = [i \in Invocations |-> NewInvocation]
    /\ fDefaults = PluginDefaults("anthropic", 1, <<>>)
    /\ fFrontmatter = EmptyFrontmatter
    /\ fSettings = NoSettings
    /\ fOp = "none"
    /\ eDoc0 = <<>>
    /\ eDoc = <<>>
    /\ eOwner = <<>>
    /\ eUseCallouts = FALSE
    /\ eShowStats = FALSE
    /\ eSession = [s \in GetResponses |-> NewSession]
    /\ kCustomPrompts = <<>>
    /\ kPromptCommands = {}
    /\ kCommands = NoCommands
    /\ kInserted = NoInsertion
    /\ kOp = "none"
    /\ nDoc0 = <<>>
    /\ nDoc = <<>>
    /\ nUseCallouts = FALSE
    /\ nShowStats = FALSE
    /\ nTokenCount = 0
    /\ nResponse = NoResponse
    /\ nPhase = "idle"

ResolverSpec == ResolverInit /\ [][ResolverNext]_vars

ExpansionInit ==
    /\ rNote = DefaultNote
    /\ rLink = <<>>
    /\ rResolved = NoResolution
    /\ rText \in Queries
    /\ rProcessed \in SUBSET {<<"N">>, <<"H", "#", "A">>}
    /\ rExpanded = NoExpansion
    /\ rOp = "none"
    /\ dDoc = JoinLines(<<HEADER_USER_PREFIX, rText>>)
    /\ dOp = "none"
    /\ dUseCallouts = FALSE
    /\ dDetected = "none"
    /\ dValidation = NoValidation
    /\ dParsed = NoParse
    /\ dSerialized = <<>>
    /\ dReparsed = NoParse
    /\ tText = <<>>
    /\ tInit = TRUE
    /\ tPos = 0
    /\ tOut = <<>>
    /\ tState = TRUE
    /\ tCuts = {}
    /\ sProvider = "anthropic"
    /\ sGen = "start"
    /\ sSource = "unopened"
    /\ sRaw = <<>>
    /\ sEnding = "none"
    /\ sEvents = <<>>
    /\ sConsumer = "start"
    /\ cTemplate = <<>>
    /\ cLines0 = << <<>> >>
    /\ cInsertPos = Position(0, 0)
    /\ cLines = << <<>> >>
    /\ cCursor = Position(0, 0)
    /\ cOp = "none"
    /\ hUseCallouts = FALSE
    /\ hShowStats = FALSE
    /\ hTokenCount = 0
    /\ hIsStartOfLine = TRUE
    /\ hPhase = "idle"
    /\ hSession = 0
    /\ hStart = FieldsAt(TRUE, 0)
    /\ hRequests = 0
    /\ hIterator = "none"
    /\ hConsumed = <<>>
    /\ hAppended = <<>>
    /\ pText = <<>>
    /\ pInv = [i \in Invocations |-> NewInvocation]
    /\ fDefaults = PluginDefaults("anthropic", 1, <<>>)
    /\ fFrontmatter = EmptyFrontmatter
    /\ fSettings = NoSettings
    /\ fOp = "none"
    /\ eDoc0 = <<>>
    /\ eDoc = <<>>
    /\ eOwner = <<>>
    /\ eUseCallouts = FALSE
    /\ eShowStats = FALSE
    /\ eSession = [s \in GetResponses |-> NewSession]
    /\ kCustomPrompts = <<>>
    /\ kPromptCommands = {}
    /\ kCommands = NoCommands
    /\ kInserted = NoInsertion
    /\ kOp = "none"
    /\ nDoc0 = <<>>
    /\ nDoc = <<>>
    /\ nUseCallouts = FALSE
    /\ nShowStats = FALSE
    /\ nTokenCount = 0
    /\ nResponse = NoResponse
    /\ nPhase = "idle"

ExpansionSpec == ExpansionInit /\ [][ExpansionNext]_vars

TemplateInit ==
    /\ cTemplate \in Templates
    /\ cLines0 \in EditorLines
    /\ cInsertPos = Position(0, 0)
    /\ cLines = cLines0
    /\ cCursor \in { Position(l, c) : l \in 0..1, c \in 0..2 }
    /\ cCursor.line < Len(cLines0)
    /\ cCursor.ch <= Len(cLines0[cCursor.line + 1])
    /\ cOp = "none"
    /\ tText = <<>>
    /\ tInit = TRUE
    /\ tPos = 0
    /\ tOut = <<>>
    /\ tState = TRUE
    /\ tCuts = {}
    /\ sProvider = "anthropic"
    /\ sGen = "start"
    /\ sSource = "unopened"
    /\ sRaw = <<>>
    /\ sEnding = "none"
    /\ sEvents = <<>>
    /\ sConsumer = "start"
    /\ dDoc = <<>>
    /\ dOp = "none"
    /\ dUseCallouts = FALSE
    /\ dDetected = "none"
    /\ dValidation = NoValidation
    /\ dParsed = NoParse
    /\ dSerialized = <<>>
    /\ dReparsed = NoParse
    /\ rNote = DefaultNote
    /\ rLink = <<>>
    /\ rResolved = NoResolution
    /\ rText = <<>>
    /\ rProcessed = {}
    /\ rExpanded = NoExpansion
    /\ rOp = "none"
    /\ hUseCallouts = FALSE
    /\ hShowStats = FALSE
    /\ hTokenCount = 0
    /\ hIsStartOfLine = TRUE
    /\ hPhase = "idle"
    /\ hSession = 0
    /\ hStart = FieldsAt(TRUE, 0)
    /\ hRequests = 0
    /\ hIterator = "none"
    /\ hConsumed = <<>>
    /\ hAppended = <<>>
    /\ pText = <<>>
    /\ pInv = [i \in Invocations |-> NewInvocation]
    /\ fDefaults = PluginDefaults("anthropic", 1, <<>>)
    /\ fFrontmatter = EmptyFrontmatter
    /\ fSettings = NoSettings
    /\ fOp = "none"
    /\ eDoc0 = <<>>
    /\ eDoc = <<>>
    /\ eOwner = <<>>
    /\ eUseCallouts = FALSE
    /\ eShowStats = FALSE
    /\ eSession = [s \in GetResponses |-> NewSession]
    /\ kCustomPrompts = <<>>
    /\ kPromptCommands = {}
    /\ kCommands = NoCommands
    /\ kInserted = NoInsertion
    /\ kOp = "none"
    /\ nDoc0 = <<>>
    /\ nDoc = <<>>
    /\ nUseCallouts = FALSE
    /\ nShowStats = FALSE
    /\ nTokenCount = 0
    /\ nResponse = NoResponse
    /\ nPhase = "idle"

TemplateSpec == TemplateInit /\ [][TemplateNext]_vars

HandlerInit ==
    /\ hUseCallouts \in BOOLEAN
    /\ hShowStats \in BOOLEAN
    /\ hTokenCount = 0
    /\ hIsStartOfLine = TRUE
    /\ hPhase = "idle"
    /\ hSession = 0
    /\ hStart = FieldsAt(TRUE, 0)
    /\ hRequests = 0
    /\ hIterator = "none"
    /\ hConsumed = <<>>
    /\ hAppended = <<>>
    /\ tText = <<>>
    /\ tInit = TRUE
    /\ tPos = 0
    /\ tOut = <<>>
    /\ tState = TRUE
    /\ tCuts = {}
    /\ sProvider = "anthropic"
    /\ sGen = "start"
    /\ sSource = "unopened"
    /\ sRaw = <<>>
    /\ sEnding = "none"
    /\ sEvents = <<>>
    /\ sConsumer = "start"
    /\ dDoc = <<>>
    /\ dOp = "none"
    /\ dUseCallouts = FALSE
    /\ dDetected = "none"
    /\ dValidation = NoValidation
    /\ dParsed = NoParse
    /\ dSerialized = <<>>
    /\ dReparsed = NoParse
    /\ rNote = DefaultNote
    /\ rLink = <<>>
    /\ rResolved = NoResolution
    /\ rText = <<>>
    /\ rProcessed = {}
    /\ rExpanded = NoExpansion
    /\ rOp = "none"
    /\ cTemplate = <<>>
    /\ cLines0 = << <<>> >>
    /\ cInsertPos = Position(0, 0)
    /\ cLines = << <<>> >>
    /\ cCursor = Position(0, 0)
    /\ cOp = "none"
    /\ pText = <<>>
    /\ pInv = [i \in Invocations |-> NewInvocation]
    /\ fDefaults = PluginDefaults("anthropic", 1, <<>>)
    /\ fFrontmatter = EmptyFrontmatter
    /\ fSettings = NoSettings
    /\ fOp = "none"
    /\ eDoc0 = <<>>
    /\ eDoc = <<>>
    /\ eOwner = <<>>
    /\ eUseCallouts = FALSE
    /\ eShowStats = FALSE
    /\ eSession = [s \in GetResponses |-> NewSession]
    /\ kCustomPrompts = <<>>
    /\ kPromptCommands = {}
    /\ kCommands = NoCommands
    /\ kInserted = NoInsertion
    /\ kOp = "none"
    /\ nDoc0 = <<>>
    /\ nDoc = <<>>
    /\ nUseCallouts = FALSE
    /\ nShowStats = FALSE
    /\ nTokenCount = 0
    /\ nResponse = NoResponse
    /\ nPhase = "idle"

HandlerSpec == HandlerInit /\ [][HandlerNext]_vars


QuoteInit ==
    /\ dDoc \in QuoteDocuments
    /\ dOp = "none"
    /\ dUseCallouts = FALSE
    /\ dDetected = "none"
    /\ dValidation = NoValidation
    /\ dParsed = NoParse
    /\ dSerialized = <<>>
    /\ dReparsed = NoParse
    /\ tText = <<>>
    /\ tInit = TRUE
    /\ tPos = 0
    /\ tOut = <<>>
    /\ tState = TRUE
    /\ tCuts = {}
    /\ sProvider = "anthropic"
    /\ sGen = "start"
    /\ sSource = "unopened"
    /\ sRaw = <<>>
    /\ sEnding = "none"
    /\ sEvents = <<>>
    /\ sConsumer = "start"
    /\ rNote = DefaultNote
    /\ rLink = <<>>
    /\ rResolved = NoResolution
    /\ rText = <<>>
    /\ rProcessed = {}
    /\ rExpanded = NoExpansion
    /\ rOp = "none"
    /\ cTemplate = <<>>
    /\ cLines0 = << <<>> >>
    /\ cInsertPos = Position(0, 0)
    /\ cLines = << <<>> >>
    /\ cCursor = Position(0, 0)
    /\ cOp = "none"
    /\ hUseCallouts = FALSE
    /\ hShowStats = FALSE
    /\ hTokenCount = 0
    /\ hIsStartOfLine = TRUE
    /\ hPhase = "idle"
    /\ hSession = 0
    /\ hStart = FieldsAt(TRUE, 0)
    /\ hRequests = 0
    /\ hIterator = "none"
    /\ hConsumed = <<>>
    /\ hAppended = <<>>
    /\ pText = <<>>
    /\ pInv = [i \in Invocations |-> NewInvocation]
    /\ fDefaults = PluginDefaults("anthropic", 1, <<>>)
    /\ fFrontmatter = EmptyFrontmatter
    /\ fSettings = NoSettings
    /\ fOp = "none"
    /\ eDoc0 = <<>>
    /\ eDoc = <<>>
    /\ eOwner = <<>>
    /\ eUseCallouts = FALSE
    /\ eShowStats = FALSE
    /\ eSession = [s \in GetResponses |-> NewSession]
    /\ kCustomPrompts = <<>>
    /\ kPromptCommands = {}
    /\ kCommands = NoCommands
    /\ kInserted = NoInsertion
    /\ kOp = "none"
    /\ nDoc0 = <<>>
    /\ nDoc = <<>>
    /\ nUseCallouts = FALSE
    /\ nShowStats = FALSE
    /\ nTokenCount = 0
    /\ nResponse = NoResponse
    /\ nPhase = "idle"

QNext == Parse

QuoteSpec == QuoteInit /\ [][QNext]_vars

ParallelInit ==
    /\ dDoc = <<>>
    /\ dOp = "none"
    /\ dUseCallouts = FALSE
    /\ dDetected = "none"
    /\ dValidation = NoValidation
    /\ dParsed = NoParse
    /\ dSerialized = <<>>
    /\ dReparsed = NoParse
    /\ tText = <<>>
    /\ tInit = TRUE
    /\ tPos = 0
    /\ tOut = <<>>
    /\ tState = TRUE
    /\ tCuts = {}
    /\ sProvider = "anthropic"
    /\ sGen = "start"
    /\ sSource = "unopened"
    /\ sRaw = <<>>
    /\ sEnding = "none"
    /\ sEvents = <<>>
    /\ sConsumer = "start"
    /\ rNote = DefaultNote
    /\ rLink = <<>>
    /\ rResolved = NoResolution
    /\ rText = <<>>
    /\ rProcessed = {}
    /\ rExpanded = NoExpansion
    /\ rOp = "none"
    /\ cTemplate = <<>>
    /\ cLines0 = << <<>> >>
    /\ cInsertPos = Position(0, 0)
    /\ cLines = << <<>> >>
    /\ cCursor = Position(0, 0)
    /\ cOp = "none"
    /\ hUseCallouts = FALSE
    /\ hShowStats = FALSE
    /\ hTokenCount = 0
    /\ hIsStartOfLine = TRUE
    /\ hPhase = "idle"
    /\ hSession = 0
    /\ hStart = FieldsAt(TRUE, 0)
    /\ hRequests = 0
    /\ hIterator = "none"
    /\ hConsumed = <<>>
    /\ hAppended = <<>>
    /\ pText \in ParDocuments
    /\ pInv = [i \in Invocations |-> NewInvocation]
    /\ fDefaults = PluginDefaults("anthropic", 1, <<>>)
    /\ fFrontmatter = EmptyFrontmatter
    /\ fSettings = NoSettings
    /\ fOp = "none"
    /\ eDoc0 = <<>>
    /\ eDoc = <<>>
    /\ eOwner = <<>>
    /\ eUseCallouts = FALSE
    /\ eShowStats = FALSE
    /\ eSession = [s \in GetResponses |-> NewSession]
    /\ kCustomPrompts = <<>>
    /\ kPromptCommands = {}
    /\ kCommands = NoCommands
    /\ kInserted = NoInsertion
    /\ kOp = "none"
    /\ nDoc0 = <<>>
    /\ nDoc = <<>>
    /\ nUseCallouts = FALSE
    /\ nShowStats = FALSE
    /\ nTokenCount = 0
    /\ nResponse = NoResponse
    /\ nPhase = "idle"

ParallelSpec == ParallelInit /\ [][ParallelNext]_vars

SettingsInit ==
    /\ dDoc = <<>>
    /\ dOp = "none"
    /\ dUseCallouts = FALSE
    /\ dDetected = "none"
    /\ dValidation = NoValidation
    /\ dParsed = NoParse
    /\ dSerialized = <<>>
    /\ dReparsed = NoParse
    /\ tText = <<>>
    /\ tInit = TRUE
    /\ tPos = 0
    /\ tOut = <<>>
    /\ tState = TRUE
    /\ tCuts = {}
    /\ sProvider = "anthropic"
    /\ sGen = "start"
    /\ sSource = "unopened"
    /\ sRaw = <<>>
    /\ sEnding = "none"
    /\ sEvents = <<>>
    /\ sConsumer = "start"
    /\ rNote = DefaultNote
    /\ rLink = <<>>
    /\ rResolved = NoResolution
    /\ rText = <<>>
    /\ rProcessed = {}
    /\ rExpanded = NoExpansion
    /\ rOp = "none"
    /\ cTemplate = <<>>
    /\ cLines0 = << <<>> >>
    /\ cInsertPos = Position(0, 0)
    /\ cLines = << <<>> >>
    /\ cCursor = Position(0, 0)
    /\ cOp = "none"
    /\ hUseCallouts = FALSE
    /\ hShowStats = FALSE
    /\ hTokenCount = 0
    /\ hIsStartOfLine = TRUE
    /\ hPhase = "idle"
    /\ hSession = 0
    /\ hStart = FieldsAt(TRUE, 0)
    /\ hRequests = 0
    /\ hIterator = "none"
    /\ hConsumed = <<>>
    /\ hAppended = <<>>
    /\ pText = <<>>
    /\ pInv = [i \in Invocations |-> NewInvocation]
    /\ fDefaults \in { PluginDefaults(p, m, sp) :
           p \in {"anthropic", "openai-compatible", "other"}, m \in {0, 1},
           sp \in {<<>>, <<"s">>} }
    /\ fFrontmatter \in Frontmatters
    /\ fSettings = NoSettings
    /\ fOp = "none"
    /\ eDoc0 = <<>>
    /\ eDoc = <<>>
    /\ eOwner = <<>>
    /\ eUseCallouts = FALSE
    /\ eShowStats = FALSE
    /\ eSession = [s \in GetResponses |-> NewSession]
    /\ kCustomPrompts = <<>>
    /\ kPromptCommands = {}
    /\ kCommands = NoCommands
    /\ kInserted = NoInsertion
    /\ kOp = "none"
    /\ nDoc0 = <<>>
    /\ nDoc = <<>>
    /\ nUseCallouts = FALSE
    /\ nShowStats = FALSE
    /\ nTokenCount = 0
    /\ nResponse = NoResponse
    /\ nPhase = "idle"

SettingsSpec == SettingsInit /\ [][SettingsNext]_vars

EditorInit ==
    /\ dDoc = <<>>
    /\ dOp = "none"
    /\ dUseCallouts = FALSE
    /\ dDetected = "none"
    /\ dValidation = NoValidation
    /\ dParsed = NoParse
    /\ dSerialized = <<>>
    /\ dReparsed = NoParse
    /\ tText = <<>>
    /\ tInit = TRUE
    /\ tPos = 0
    /\ tOut = <<>>
    /\ tState = TRUE
    /\ tCuts = {}
    /\ sProvider = "anthropic"
    /\ sGen = "start"
    /\ sSource = "unopened"
    /\ sRaw = <<>>
    /\ sEnding = "none"
    /\ sEvents = <<>>
    /\ sConsumer = "start"
    /\ rNote = DefaultNote
    /\ rLink = <<>>
    /\ rResolved = NoResolution
    /\ rText = <<>>
    /\ rProcessed = {}
    /\ rExpanded = NoExpansion
    /\ rOp = "none"
    /\ cTemplate = <<>>
    /\ cLines0 = << <<>> >>
    /\ cInsertPos = Position(0, 0)
    /\ cLines = << <<>> >>
    /\ cCursor = Position(0, 0)
    /\ cOp = "none"
    /\ hUseCallouts = FALSE
    /\ hShowStats = FALSE
    /\ hTokenCount = 0
    /\ hIsStartOfLine = TRUE
    /\ hPhase = "idle"
    /\ hSession = 0
    /\ hStart = FieldsAt(TRUE, 0)
    /\ hRequests = 0
    /\ hIterator = "none"
    /\ hConsumed = <<>>
    /\ hAppended = <<>>
    /\ pText = <<>>
    /\ pInv = [i \in Invocations |-> NewInvocation]
    /\ fDefaults = PluginDefaults("anthropic", 1, <<>>)
    /\ fFrontmatter = EmptyFrontmatter
    /\ fSettings = NoSettings
    /\ fOp = "none"
    /\ eDoc0 \in EditorDocuments
    /\ eDoc = eDoc0
    /\ eOwner = [i \in 1..Len(eDoc0) |-> 0]
    /\ eUseCallouts \in BOOLEAN
    /\ eShowStats \in BOOLEAN
    /\ eSession = [s \in GetResponses |-> NewSession]
    /\ kCustomPrompts = <<>>
    /\ kPromptCommands = {}
    /\ kCommands = NoCommands
    /\ kInserted = NoInsertion
    /\ kOp = "none"
    /\ nDoc0 = <<>>
    /\ nDoc = <<>>
    /\ nUseCallouts = FALSE
    /\ nShowStats = FALSE
    /\ nTokenCount = 0
    /\ nResponse = NoResponse
    /\ nPhase = "idle"

EditorSpec == EditorInit /\ [][EditorNext]_vars

CommandsInit ==
    /\ hTokenCount = 0
    /\ hIsStartOfLine = TRUE
    /\ hPhase = "idle"
    /\ hSession = 0
    /\ hStart = FieldsAt(TRUE, 0)
    /\ hRequests = 0
    /\ hIterator = "none"
    /\ hConsumed = <<>>
    /\ hAppended = <<>>
    /\ tText = <<>>
    /\ tInit = TRUE
    /\ tPos = 0
    /\ tOut = <<>>
    /\ tState = TRUE
    /\ tCuts = {}
    /\ sProvider = "anthropic"
    /\ sGen = "start"
    /\ sSource = "unopened"
    /\ sRaw = <<>>
    /\ sEnding = "none"
    /\ sEvents = <<>>
    /\ sConsumer = "start"
    /\ dDoc = <<>>
    /\ dOp = "none"
    /\ dUseCallouts = FALSE
    /\ dDetected = "none"
    /\ dValidation = NoValidation
    /\ dParsed = NoParse
    /\ dSerialized = <<>>
    /\ dReparsed = NoParse
    /\ rNote = DefaultNote
    /\ rLink = <<>>
    /\ rResolved = NoResolution
    /\ rText = <<>>
    /\ rProcessed = {}
    /\ rExpanded = NoExpansion
    /\ rOp = "none"
    /\ cTemplate = <<>>
    /\ cLines0 = << <<>> >>
    /\ cInsertPos = Position(0, 0)
    /\ cLines = << <<>> >>
    /\ cCursor = Position(0, 0)
    /\ cOp = "none"
    /\ pText = <<>>
    /\ pInv = [i \in Invocations |-> NewInvocation]
    /\ fDefaults = PluginDefaults("anthropic", 1, <<>>)
    /\ fFrontmatter = EmptyFrontmatter
    /\ fSettings = NoSettings
    /\ fOp = "none"
    /\ eDoc0 = <<>>
    /\ eDoc = <<>>
    /\ eOwner = <<>>
    /\ eUseCallouts = FALSE
    /\ eShowStats = FALSE
    /\ eSession = [s \in GetResponses |-> NewSession]
    /\ kCustomPrompts \in { <<>> } \union { <<t>> : t \in PromptTemplates }
    /\ kPromptCommands = { kCustomPrompts[i].name : i \in 1..Len(kCustomPrompts) }
    /\ kCommands \in
           { registerPromptCommands(kCustomPrompts, NoCommands, 1),
             registerPromptCommands(kCustomPrompts,
                 updatePromptCommands(kCustomPrompts, {}, NoCommands).commands, 1) }
    /\ kInserted = NoInsertion
    /\ kOp = "none"
    /\ hUseCallouts = FALSE
    /\ hShowStats = FALSE
    /\ nDoc0 = <<>>
    /\ nDoc = <<>>
    /\ nUseCallouts = FALSE
    /\ nShowStats = FALSE
    /\ nTokenCount = 0
    /\ nResponse = NoResponse
    /\ nPhase = "idle"

CommandsSpec == CommandsInit /\ [][CommandsNext]_vars

NonStreamingInit ==
    /\ dDoc = <<>>
    /\ dOp = "none"
    /\ dUseCallouts = FALSE
    /\ dDetected = "none"
    /\ dValidation = NoValidation
    /\ dParsed = NoParse
    /\ dSerialized = <<>>
    /\ dReparsed = NoParse
    /\ tText = <<>>
    /\ tInit = TRUE
    /\ tPos = 0
    /\ tOut = <<>>
    /\ tState = TRUE
    /\ tCuts = {}
    /\ sProvider = "anthropic"
    /\ sGen = "start"
    /\ sSource = "unopened"
    /\ sRaw = <<>>
    /\ sEnding = "none"
    /\ sEvents = <<>>
    /\ sConsumer = "start"
    /\ rNote = DefaultNote
    /\ rLink = <<>>
    /\ rResolved = NoResolution
    /\ rText = <<>>
    /\ rProcessed = {}
    /\ rExpanded = NoExpansion
    /\ rOp = "none"
    /\ cTemplate = <<>>
    /\ cLines0 = << <<>> >>
    /\ cInsertPos = Position(0, 0)
    /\ cLines = << <<>> >>
    /\ cCursor = Position(0, 0)
    /\ cOp = "none"
    /\ hUseCallouts = FALSE
    /\ hShowStats = FALSE
    /\ hTokenCount = 0
    /\ hIsStartOfLine = TRUE
    /\ hPhase = "idle"
    /\ hSession = 0
    /\ hStart = FieldsAt(TRUE, 0)
    /\ hRequests = 0
    /\ hIterator = "none"
    /\ hConsumed = <<>>
    /\ hAppended = <<>>
    /\ pText = <<>>
    /\ pInv = [i \in Invocations |-> NewInvocation]
    /\ fDefaults = PluginDefaults("anthropic", 1, <<>>)
    /\ fFrontmatter = EmptyFrontmatter
    /\ fSettings = NoSettings
    /\ fOp = "none"
    /\ eDoc0 = <<>>
    /\ eDoc = <<>>
    /\ eOwner = <<>>
    /\ eUseCallouts = FALSE
    /\ eShowStats = FALSE
    /\ eSession = [s \in GetResponses |-> NewSession]
    /\ kCustomPrompts = <<>>
    /\ kPromptCommands = {}
    /\ kCommands = NoCommands
    /\ kInserted = NoInsertion
    /\ kOp = "none"
    /\ nDoc0 \in EditorDocuments
    /\ nDoc = nDoc0
    /\ nUseCallouts \in BOOLEAN
    /\ nShowStats \in BOOLEAN
    /\ nTokenCount = 0
    /\ nResponse = NoResponse
    /\ nPhase = "idle"

NonStreamingSpec == NonStreamingInit /\ [][NonStreamingNext]_vars

=============================================================================
